---- MODULE Spec2Model ----
(***************************************************************************)
(* Model of the spreadsheet status/year aggregation of the Enel portal     *)
(* backend: process_enel_legalizacao_data (src/api/enel_spreadsheets.py)   *)
(* applied to datasets in the shape read_spreadsheet_file produces         *)
(* (src/api/spreadsheet_files.py).                                         *)
(*                                                                         *)
(* Text is modelled as a sequence of one-character strings, so that        *)
(* strip(), lower(), split()/join(), the substring test and int() are      *)
(* computed character by character as Python computes them.                *)
(* A percentage is the exact quotient num/den kept as a record; the float  *)
(* the code computes differs from it by rounding error only.               *)
(*                                                                         *)
(* Spec            one call of process_enel_legalizacao_data               *)
(* SpecConcurrent  several calls of it, interleaved step by step           *)
(* SpecRead        one call of read_spreadsheet_file on a file             *)
(* SpecUsers       requests to the /api/users routes (src/api/users.py,    *)
(*                 src/api/auth.py) and to /api/auth/forgot-password       *)
(*                 (src/api/app.py) over the users table                   *)
(* SpecStorage     the upload, delete, info and regularizacao report       *)
(*                 routes (src/api/spreadsheets.py, enel_spreadsheets.py,  *)
(*                 reports.py) over SPREADSHEETS_DIR and the two           *)
(*                 spreadsheet tables, one request at a time               *)
(* SpecStorageFair the same, with a client that keeps asking               *)
(* SpecStorageConcurrent  two uploads for one key served at once           *)
(* SpecFallback    GET /api/enel-spreadsheets/<name>/data when the         *)
(*                 recorded file is missing                                *)
(* SpecParse       parse_status_data of src/api/spreadsheet_files.py and   *)
(*                 of src/api/google_sheets.py on the same arguments       *)
(* The variables of the components a specification does not run keep the  *)
(* idle value its initial predicate gives them.                            *)
(***************************************************************************)
EXTENDS Integers, Sequences, FiniteSets, TLC

\* ------------------------------------------------------------------ bounds
\* largest number of data rows of a dataset
MaxRows == 2

\* ------------------------------------------------------------ Python text
\* str.strip() / str.split(): the whitespace characters
IsSpace(c) == c \in {" ", "\t", "\n"}

UpperChars == <<"A","B","C","D","E","F","G","H","I","J","K","L","M","N","O",
                "P","Q","R","S","T","U","V","W","X","Y","Z","Í","Á","Ã","É","Ç","Õ">>
LowerChars == <<"a","b","c","d","e","f","g","h","i","j","k","l","m","n","o",
                "p","q","r","s","t","u","v","w","x","y","z","í","á","ã","é","ç","õ">>

LowerChar(c) ==
    IF \E k \in 1..Len(UpperChars) : UpperChars[k] = c
    THEN LowerChars[CHOOSE k \in 1..Len(UpperChars) : UpperChars[k] = c]
    ELSE c

\* str.lower()
lower(s) == [k \in 1..Len(s) |-> LowerChar(s[k])]

RECURSIVE lstrip(_)
lstrip(s) == IF s # <<>> /\ IsSpace(Head(s)) THEN lstrip(Tail(s)) ELSE s

RECURSIVE rstrip(_)
rstrip(s) ==
    IF s # <<>> /\ IsSpace(s[Len(s)]) THEN rstrip(SubSeq(s, 1, Len(s) - 1)) ELSE s

\* str.strip()
strip(s) == rstrip(lstrip(s))

\* the first word of a text that starts with a non-blank character
RECURSIVE first_word(_)
first_word(t) ==
    IF t = <<>> \/ IsSpace(Head(t)) THEN <<>> ELSE <<Head(t)>> \o first_word(Tail(t))

\* ' '.join(s.split()): the words of s, each run of whitespace between two
\* words replaced by one blank, no whitespace at either end
RECURSIVE join_split(_)
join_split(s) ==
    LET t == lstrip(s)
        w == first_word(t)
        rest == lstrip(SubSeq(t, Len(w) + 1, Len(t)))
    IN  IF t = <<>> THEN <<>>
        ELSE IF rest = <<>> THEN w
        ELSE w \o <<" ">> \o join_split(rest)

\* sub in s
contains(sub, s) ==
    \E k \in 0..(Len(s) - Len(sub)) : SubSeq(s, k + 1, k + Len(sub)) = sub

Digits == <<"0","1","2","3","4","5","6","7","8","9">>
IsDigit(c) == \E k \in 1..10 : Digits[k] = c
DigitValue(c) == (CHOOSE k \in 1..10 : Digits[k] = c) - 1

RECURSIVE DigitsValue(_)
DigitsValue(s) ==
    IF s = <<>> THEN 0
    ELSE 10 * DigitsValue(SubSeq(s, 1, Len(s) - 1)) + DigitValue(s[Len(s)])

\* int(s) of a str: surrounding whitespace ignored, an optional sign, then
\* decimal digits only; anything else (a '.', a letter, nothing) is ValueError
int_ok(s) ==
    LET t == strip(s)
        d == IF t # <<>> /\ Head(t) \in {"+", "-"} THEN Tail(t) ELSE t
    IN  d # <<>> /\ \A k \in 1..Len(d) : IsDigit(d[k])

int(s) ==
    LET t == strip(s)
    IN  IF t # <<>> /\ Head(t) = "-" THEN 0 - DigitsValue(Tail(t))
        ELSE IF t # <<>> /\ Head(t) = "+" THEN DigitsValue(Tail(t))
        ELSE DigitsValue(t)

\* str(n) of a non-negative int
RECURSIVE str_int(_)
str_int(n) ==
    IF n < 10 THEN <<Digits[n + 1]>>
    ELSE str_int(n \div 10) \o <<Digits[(n % 10) + 1]>>

\* ------------------------------------------------- texts of the datasets
Status == <<"S","t","a","t","u","s">>
StatusPadded == <<" ","S","T","A","T","U","S"," ">>
StatusLowerPadded == <<" ","s","t","a","t","u","s"," ">>
StatusDetalhado == <<"S","t","a","t","u","s"," ","d","e","t">>
AnoAcionamento == <<"a","n","o"," ","A","c","i","o","n","a","m","e","n","t","o">>
AnoAcionamentoUpper == <<"A","N","O"," ","A","c","i","o","n","a","m","e","n","t","o"," ">>
Ano == <<"A","n","o">>

Concluido == <<"C","o","n","c","l","u","í","d","o">>
EmAnalise == <<"E","m"," ","a","n","a","l","i","s","e">>
EmAnaliseSpaced == <<"E","M"," "," ","A","N","A","L","I","S","E"," ">>
Cancelado == <<"C","a","n","c","e","l","a","d","o">>
NaoConcluido == <<"N","ã","o"," ","C","o","n","c","l","u","í","d","o">>
Blank == <<" ">>
NotANumber == <<"n","/","a">>
Extra == <<"x">>

\* ------------------------------------------ read_spreadsheet_file, cells
\* a cell of the DataFrame after fillna(''): a str, an int, a float with an
\* integral value, or '' where the sheet had no value
StrVal(s) == [t |-> "str", s |-> s, n |-> 0]
IntVal(n) == [t |-> "int", s |-> <<>>, n |-> n]
FloatVal(n) == [t |-> "float", s |-> <<>>, n |-> n]
NaN == StrVal(<<>>)

\* str(val): Python writes a float with an integral value as "<digits>.0"
str(val) ==
    CASE val.t = "str" -> val.s
      [] val.t = "int" -> str_int(val.n)
      [] val.t = "float" -> str_int(val.n) \o <<".", "0">>

\* processed_row.append('' if val == '' else str(val))
processed_cell(val) == IF val = NaN THEN <<>> ELSE str(val)

processed_row(row) == [k \in 1..Len(row) |-> processed_cell(row[k])]

\* ------------------------------------------------------ the input space
\* header rows: the two columns by their exact names; the same two with
\* other case and padding; a header that only contains the status name; no
\* year column; no header at all; the status name in two columns
HeaderLists ==
    { <<Status, AnoAcionamento>>,
      <<StatusPadded, AnoAcionamentoUpper>>,
      <<StatusDetalhado, AnoAcionamentoUpper>>,
      <<Status, Ano>>,
      <<>>,
      <<Ano, StatusPadded, AnoAcionamentoUpper, Status>> }

StatusColumns == { Status, StatusLowerPadded }

\* years = [int(y) for y in years_param.split(',')]: any list of ints, a
\* repeated year included (years=2024,2024)
YearLists == { <<2024, 2025>>, <<2024>>, <<2024, 2024>> }

\* rows of the sheet before the cells are turned into text
RawRows ==
    { <<StrVal(Concluido), IntVal(2024)>>,
      <<StrVal(Concluido), IntVal(2025)>>,
      <<StrVal(EmAnalise), IntVal(2024)>>,
      <<StrVal(EmAnaliseSpaced), IntVal(2025)>>,
      <<StrVal(Cancelado), FloatVal(2024)>>,
      <<StrVal(Cancelado), IntVal(2024)>>,
      <<StrVal(NaoConcluido), IntVal(2024)>>,
      <<StrVal(Blank), IntVal(2024)>>,
      <<StrVal(Concluido), NaN>>,
      <<StrVal(EmAnalise), IntVal(2023)>>,
      <<StrVal(Concluido)>>,
      <<StrVal(Cancelado), StrVal(NotANumber)>>,
      <<StrVal(Extra), StrVal(Cancelado), IntVal(2024), StrVal(Extra)>> }

RowPool == { processed_row(r) : r \in RawRows }

RECURSIVE SeqsUpTo(_, _)
SeqsUpTo(S, n) ==
    IF n = 0 THEN { <<>> }
    ELSE LET shorter == SeqsUpTo(S, n - 1)
         IN  shorter \cup { Append(q, x) : q \in shorter, x \in S }

Datasets == SeqsUpTo(RowPool, MaxRows)

\* ------------------------------------------------------------------ state
VARIABLES
    headers,        \* data['headers']
    rows,           \* data['values']
    status_column,  \* the requested status column
    years,          \* the requested years, a list
    pc,             \* position in process_enel_legalizacao_data
    status_col_idx, \* index of the status column, None until resolved
    year_col_idx,   \* index of the year column, None until resolved
    row_i,          \* number of rows the row loop has taken
    status_counts,  \* dict in insertion order: <<[key, original, years, total]>>
    total_by_year,
    total_all,
    concluidos_data,
    em_andamento_subcategorias,
    em_andamento_total,
    result,         \* the dict returned, <<>> until the call returns
    exc             \* the exception raised, "None" if none

vars == <<headers, rows, status_column, years, pc, status_col_idx, year_col_idx,
          row_i, status_counts, total_by_year, total_all, concluidos_data,
          em_andamento_subcategorias, em_andamento_total, result, exc>>

inputs == <<headers, rows, status_column, years>>

\* calls of process_enel_legalizacao_data running at the same time
VARIABLES
    calls,          \* the locals of each call, by call
    heap            \* the status_counts dicts, by the dict's owner

concurrent_vars == <<calls, heap>>

ConcurrentIdle ==
    /\ calls = <<>>
    /\ heap = <<>>

\* a call of read_spreadsheet_file and the file it is asked to read
VARIABLES
    file,           \* the file at file_path: does it exist, its suffix, its content
    reader          \* the locals of the call

reader_vars == <<file, reader>>

ReaderIdle ==
    /\ file = <<>>
    /\ reader = <<>>

\* the users table and the HTTP request being served
VARIABLES
    users,          \* table users: normalized email -> [nome, role]
    req             \* the request: what was sent, where it stands, the response

users_vars == <<users, req>>

UsersIdle ==
    /\ users = <<>>
    /\ req = <<>>

\* the spreadsheets directory, the two spreadsheet tables and the requests
\* to the upload, delete, info, data and report routes being served
VARIABLES
    disk,           \* names of the files in SPREADSHEETS_DIR
    db,             \* the tables spreadsheets and enel_spreadsheets, the open connections
    serving         \* the locals and the response of each request, by request

storage_vars == <<disk, db, serving>>

StorageIdle ==
    /\ disk = {}
    /\ db = <<>>
    /\ serving = <<>>

\* a dataset given to both parse_status_data functions
VARIABLES
    parsing         \* the arguments and what each function gave

parse_vars == <<parsing>>

ParsingIdle == parsing = <<>>

\* what the single call of Spec leaves alone
others == <<concurrent_vars, reader_vars, users_vars, storage_vars, parse_vars>>

all_vars == <<vars, others>>

OthersIdle ==
    /\ ConcurrentIdle
    /\ ReaderIdle
    /\ UsersIdle
    /\ StorageIdle
    /\ ParsingIdle

\* ------------------------------------------------------------ the result
None == -1

Range(q) == { q[k] : k \in 1..Len(q) }

\* 0.0, 100.0 and the quotient (x / total_all) * 100
ZeroPercent == [num |-> 0, den |-> 1]
AllPercent == [num |-> 100, den |-> 1]
\* the quotient without the factor 100
percentage_fraction(x, total) == [num |-> x, den |-> total]
percentage(x, total) == [num |-> x * 100, den |-> total]

\* {y: 0 for y in years}
zero_years(ys) == [y \in Range(ys) |-> 0]

\* {'years': {y: 0 for y in years}, 'total': 0, 'percentage': 0.0}
zero_bucket(ys) == [years |-> zero_years(ys), total |-> 0, percentage |-> ZeroPercent]

\* the early result with every percentage 0.0
empty_result_all_zero(ys) ==
    [ total_demandado |-> zero_bucket(ys),
      concluidos |-> zero_bucket(ys),
      em_andamento |-> [total |-> zero_bucket(ys), subcategorias |-> <<>>] ]

\* the dict of the three early returns
empty_result(ys) ==
    [ total_demandado |->
          [years |-> zero_years(ys), total |-> 0, percentage |-> AllPercent],
      concluidos |-> zero_bucket(ys),
      em_andamento |-> [total |-> zero_bucket(ys), subcategorias |-> <<>>] ]

ColunaPrefix == <<"C","o","l","u","n","a"," ","'">>
NaoEncontrada == <<"'"," ","n","ã","o"," ","e","n","c","o","n","t","r","a","d","a">>

\* f"Coluna '{name}' não encontrada"
warning_text(name) == ColunaPrefix \o name \o NaoEncontrada

status_not_found_result(hs, name, ys) ==
    empty_result(ys) @@
    [ warning |-> warning_text(name),
      available_columns |-> hs,
      requested_column |-> name ]

year_column_name == <<"a","n","o"," ","A","c","i","o","n","a","m","e","n","t","o">>

\* the year column's early result without the diagnostic fields
year_not_found_plain(hs, ys) == empty_result(ys)

year_not_found_result(hs, ys) ==
    empty_result(ys) @@
    [ warning |-> warning_text(year_column_name),
      available_columns |-> hs,
      requested_year_column |-> year_column_name ]

\* ---------------------------------------------------- column resolution
\* a lookup that takes a header which contains the name
find_column_partial(hs, target) ==
    LET hits == { k \in 1..Len(hs) : contains(target, lower(strip(hs[k]))) }
    IN  IF hits = {} THEN None
        ELSE (CHOOSE k \in hits : \A j \in hits : k <= j) - 1

\* for idx, header in enumerate(headers):
\*     if header.strip().lower() == target: return idx (0-based); else None
find_column(hs, target) ==
    LET hits == { k \in 1..Len(hs) : lower(strip(hs[k])) = target }
    IN  IF hits = {} THEN None
        ELSE (CHOOSE k \in hits : \A j \in hits : k <= j) - 1

\* ------------------------------------------------------------ the row loop
Max(a, b) == IF a >= b THEN a ELSE b

\* len(row) <= max(status_col_idx, year_col_idx)
row_too_short(row, si, yi) == Len(row) <= Max(si, yi)

\* row[idx] if idx < len(row) else ""
cell(row, idx) == IF idx < Len(row) THEN row[idx + 1] ELSE <<>>

\* a presence test that lets every text through
never_blank(text) == FALSE

\* not status_value, not year_value_str
is_blank(text) == text = <<>>

\* row_year not in years
year_not_requested(y, ys) == y \notin Range(ys)

\* the row is left out by one of the `continue`s of the loop
row_skipped(row, si, yi, ys) ==
    \/ row_too_short(row, si, yi)
    \/ is_blank(strip(cell(row, si)))
    \/ is_blank(strip(cell(row, yi)))
    \/ ~int_ok(strip(cell(row, yi)))
    \/ year_not_requested(int(strip(cell(row, yi))), ys)

\* the cells read with no test of the row's length
index_error_unguarded(row, si, yi) == \E idx \in {si, yi} : ~(idx < Len(row))

\* row[idx] raises IndexError: the read is past the continue of the length
\* test, is evaluated (`row[idx] if idx < len(row) else ""`) and idx is past
\* the end of the row
index_error(row, si, yi) ==
    /\ ~row_too_short(row, si, yi)
    /\ \E idx \in {si, yi} : idx < Len(row) /\ ~(idx < Len(row))

\* int(year_value_str) raises: the row reached the parse with a text that
\* is no integer
year_unparsed(row, si, yi) ==
    /\ ~row_too_short(row, si, yi)
    /\ ~is_blank(strip(cell(row, si)))
    /\ ~is_blank(strip(cell(row, yi)))
    /\ ~int_ok(strip(cell(row, yi)))

\* except (ValueError, TypeError): continue
value_error_caught == TRUE

\* the key with its case kept
status_normalized_cased(status_value) == join_split(status_value)

\* ' '.join(status_value.split()).lower()
status_normalized(status_value) == lower(join_split(status_value))

key_index(counts, key) ==
    IF \E k \in 1..Len(counts) : counts[k].key = key
    THEN CHOOSE k \in 1..Len(counts) : counts[k].key = key
    ELSE 0

\* if status_normalized not in status_counts: status_counts[...] = {...}
with_key(counts, key, status_value, ys) ==
    IF key_index(counts, key) # 0 THEN counts
    ELSE Append(counts, [key |-> key, original |-> status_value,
                         years |-> zero_years(ys), total |-> 0])

\* status_counts[key]['years'][row_year] += 1; status_counts[key]['total'] += 1
count_row(counts, key, y) ==
    [counts EXCEPT ![key_index(counts, key)] =
        [@ EXCEPT !.years = [@ EXCEPT ![y] = @ + 1], !.total = @ + 1]]

\* total_by_year[row_year] += 1
count_year(by_year, y) == [by_year EXCEPT ![y] = @ + 1]

\* the grand total left as it was
count_total_lost(t) == t

\* total_all += 1
count_total(t) == t + 1

\* ---------------------------------------------- the buckets of the result
concluidos_normalized == <<"c","o","n","c","l","u","í","d","o">>

\* a status is Concluído only when it is that word alone
is_concluido_exact(status_norm) == status_norm = concluidos_normalized

\* concluidos_normalized in status_norm
is_concluido(status_norm) == contains(concluidos_normalized, status_norm)

\* for year in years: acc['years'][year] += src['years'][year], the list
\* taken element by element
RECURSIVE add_years(_, _, _)
add_years(acc, src, ys) ==
    IF ys = <<>> THEN acc
    ELSE add_years([acc EXCEPT ![Head(ys)] = @ + src[Head(ys)]], src, Tail(ys))

\* the bucket after `for year in years: ...; bucket['total'] += info['total']`
add_to_bucket(bucket, info, ys) ==
    [bucket EXCEPT !.years = add_years(@, info.years, ys), !.total = @ + info.total]

\* concluidos_data after the loop over status_counts.items()
RECURSIVE concluidos_of(_, _, _)
concluidos_of(counts, acc, ys) ==
    IF counts = <<>> THEN acc
    ELSE concluidos_of(Tail(counts),
                       IF is_concluido(Head(counts).key)
                       THEN add_to_bucket(acc, Head(counts), ys) ELSE acc,
                       ys)

\* the subcategory named by its grouping key
subcat_of_key(info) ==
    [name |-> info.key, years |-> info.years, total |-> info.total,
     percentage |-> ZeroPercent]

subcat_of(info) ==
    [name |-> info.original, years |-> info.years, total |-> info.total,
     percentage |-> ZeroPercent]

\* each subcategory put in front of the earlier ones
RECURSIVE subcategorias_reversed(_)
subcategorias_reversed(counts) ==
    IF counts = <<>> THEN <<>>
    ELSE IF is_concluido(Head(counts).key) THEN subcategorias_reversed(Tail(counts))
         ELSE subcategorias_reversed(Tail(counts)) \o <<subcat_of(Head(counts))>>

\* every status, Concluídos too, turned into a subcategory
subcategorias_all(counts) == [k \in 1..Len(counts) |-> subcat_of(counts[k])]

\* em_andamento_subcategorias after the loop over status_counts.items()
RECURSIVE subcategorias_of(_)
subcategorias_of(counts) ==
    IF counts = <<>> THEN <<>>
    ELSE IF is_concluido(Head(counts).key) THEN subcategorias_of(Tail(counts))
         ELSE <<subcat_of(Head(counts))>> \o subcategorias_of(Tail(counts))

\* em_andamento_total after the loop over the subcategories
RECURSIVE em_andamento_total_of(_, _, _)
em_andamento_total_of(subcats, acc, ys) ==
    IF subcats = <<>> THEN acc
    ELSE em_andamento_total_of(Tail(subcats), add_to_bucket(acc, Head(subcats), ys), ys)

\* the share taken of the number of rows of the sheet
with_percentage_of_rows(bucket, total) ==
    [bucket EXCEPT !.percentage = percentage(bucket.total, Len(rows))]

\* bucket['percentage'] = (bucket['total'] / total_all) * 100
with_percentage(bucket, total) ==
    [bucket EXCEPT !.percentage = percentage(bucket.total, total)]

\* ---------------------------------------------------------------- Init
\* a call process_enel_legalizacao_data(data, status_column, years) about
\* to start, data in the shape read_spreadsheet_file returns
Init ==
    /\ headers \in HeaderLists
    /\ rows \in Datasets
    /\ status_column \in StatusColumns
    /\ years \in YearLists
    /\ pc = "start"
    /\ status_col_idx = None
    /\ year_col_idx = None
    /\ row_i = 0
    /\ status_counts = <<>>
    /\ total_by_year = <<>>
    /\ total_all = 0
    /\ concluidos_data = <<>>
    /\ em_andamento_subcategorias = <<>>
    /\ em_andamento_total = <<>>
    /\ result = <<>>
    /\ exc = "None"
    /\ OthersIdle

Return(value) ==
    /\ result' = value
    /\ pc' = "done"

\* if not headers or not rows: return {...}
CheckEmpty ==
    /\ pc = "start"
    /\ IF headers = <<>> \/ rows = <<>>
       THEN Return(empty_result(years))
       ELSE pc' = "status_column" /\ UNCHANGED result
    /\ UNCHANGED <<inputs, status_col_idx, year_col_idx, row_i, status_counts,
                   total_by_year, total_all, concluidos_data,
                   em_andamento_subcategorias, em_andamento_total, exc>>
    /\ UNCHANGED others

\* the status column is looked up; not found: the warning result
FindStatusColumn ==
    /\ pc = "status_column"
    /\ status_col_idx' = find_column(headers, lower(strip(status_column)))
    /\ IF status_col_idx' = None
       THEN Return(status_not_found_result(headers, status_column, years))
       ELSE pc' = "year_column" /\ UNCHANGED result
    /\ UNCHANGED <<inputs, year_col_idx, row_i, status_counts, total_by_year,
                   total_all, concluidos_data, em_andamento_subcategorias,
                   em_andamento_total, exc>>
    /\ UNCHANGED others

\* the year column is looked up; not found: the warning result; found: the
\* counters of the row loop are set up
FindYearColumn ==
    /\ pc = "year_column"
    /\ year_col_idx' = find_column(headers, lower(year_column_name))
    /\ IF year_col_idx' = None
       THEN /\ Return(year_not_found_result(headers, years))
            /\ UNCHANGED <<status_counts, total_by_year, total_all>>
       ELSE /\ pc' = "rows"
            /\ status_counts' = <<>>
            /\ total_by_year' = zero_years(years)
            /\ total_all' = 0
            /\ UNCHANGED result
    /\ UNCHANGED <<inputs, status_col_idx, row_i, concluidos_data,
                   em_andamento_subcategorias, em_andamento_total, exc>>
    /\ UNCHANGED others

\* one turn of `for row in rows`
ProcessRow ==
    /\ pc = "rows"
    /\ row_i < Len(rows)
    /\ row_i' = row_i + 1
    /\ LET row == rows[row_i + 1]
           status_value == strip(cell(row, status_col_idx))
           row_year == int(strip(cell(row, year_col_idx)))
           key == status_normalized(status_value)
       IN  IF index_error(row, status_col_idx, year_col_idx)
           THEN /\ exc' = "IndexError"
                /\ pc' = "raised"
                /\ UNCHANGED <<status_counts, total_by_year, total_all>>
           ELSE IF year_unparsed(row, status_col_idx, year_col_idx) /\ ~value_error_caught
           THEN /\ exc' = "ValueError"
                /\ pc' = "raised"
                /\ UNCHANGED <<status_counts, total_by_year, total_all>>
           ELSE IF row_skipped(row, status_col_idx, year_col_idx, years)
           THEN UNCHANGED <<status_counts, total_by_year, total_all, pc, exc>>
           ELSE IF row_year \notin DOMAIN total_by_year
           THEN \* status_counts[...]['years'][row_year] of a missing key
                /\ exc' = "KeyError"
                /\ pc' = "raised"
                /\ UNCHANGED <<status_counts, total_by_year, total_all>>
           ELSE /\ status_counts' =
                      count_row(with_key(status_counts, key, status_value, years),
                                key, row_year)
                /\ total_by_year' = count_year(total_by_year, row_year)
                /\ total_all' = count_total(total_all)
                /\ UNCHANGED <<pc, exc>>
    /\ UNCHANGED <<inputs, status_col_idx, year_col_idx, concluidos_data,
                   em_andamento_subcategorias, em_andamento_total, result>>
    /\ UNCHANGED others

\* the loop over status_counts.items(): Concluídos apart from the rest
SeparateStatus ==
    /\ pc = "rows"
    /\ row_i = Len(rows)
    /\ concluidos_data' = concluidos_of(status_counts, zero_bucket(years), years)
    /\ em_andamento_subcategorias' = subcategorias_of(status_counts)
    /\ pc' = "em_andamento"
    /\ UNCHANGED <<inputs, status_col_idx, year_col_idx, row_i, status_counts,
                   total_by_year, total_all, em_andamento_total, result, exc>>
    /\ UNCHANGED others

\* the total of "Alvarás em andamento"
SumEmAndamento ==
    /\ pc = "em_andamento"
    /\ em_andamento_total' =
           em_andamento_total_of(em_andamento_subcategorias, zero_bucket(years), years)
    /\ pc' = "percentages"
    /\ UNCHANGED <<inputs, status_col_idx, year_col_idx, row_i, status_counts,
                   total_by_year, total_all, concluidos_data,
                   em_andamento_subcategorias, result, exc>>
    /\ UNCHANGED others

\* the percentages, then the return of the result
CalcPercentages ==
    /\ pc = "percentages"
    /\ IF total_all > 0
       THEN /\ concluidos_data' = with_percentage(concluidos_data, total_all)
            /\ em_andamento_total' = with_percentage(em_andamento_total, total_all)
            /\ em_andamento_subcategorias' =
                   [k \in 1..Len(em_andamento_subcategorias) |->
                       with_percentage(em_andamento_subcategorias[k], total_all)]
       ELSE UNCHANGED <<concluidos_data, em_andamento_total,
                        em_andamento_subcategorias>>
    /\ Return([ total_demandado |->
                    [years |-> total_by_year, total |-> total_all,
                     percentage |-> AllPercent],
                concluidos |-> concluidos_data',
                em_andamento |-> [total |-> em_andamento_total',
                                  subcategorias |-> em_andamento_subcategorias'],
                years |-> years ])
    /\ UNCHANGED <<inputs, status_col_idx, year_col_idx, row_i, status_counts,
                   total_by_year, total_all, exc>>
    /\ UNCHANGED others

Next ==
    \/ CheckEmpty
    \/ FindStatusColumn
    \/ FindYearColumn
    \/ ProcessRow
    \/ SeparateStatus
    \/ SumEmAndamento
    \/ CalcPercentages

Spec == Init /\ [][Next]_all_vars

\* ------------------------------------------- the call as a pure function
\* the locals of a call that is about to start
new_call(hs, rs, sc, ys) ==
    [ headers |-> hs, rows |-> rs, status_column |-> sc, years |-> ys,
      pc |-> "start", status_col_idx |-> None, year_col_idx |-> None,
      row_i |-> 0, total_by_year |-> <<>>, total_all |-> 0,
      concluidos_data |-> <<>>, em_andamento_subcategorias |-> <<>>,
      em_andamento_total |-> <<>>, result |-> <<>>, exc |-> "None" ]

returned(f, value) == [f EXCEPT !.result = value, !.pc = "done"]

raised(f, e) == [f EXCEPT !.exc = e, !.pc = "raised"]

\* one turn of `for row in rows` on the locals f and the dict counts
row_step(f, counts) ==
    LET row == f.rows[f.row_i + 1]
        g == [f EXCEPT !.row_i = @ + 1]
        status_value == strip(cell(row, f.status_col_idx))
        row_year == int(strip(cell(row, f.year_col_idx)))
        key == status_normalized(status_value)
    IN  IF index_error(row, f.status_col_idx, f.year_col_idx)
        THEN [frame |-> raised(g, "IndexError"), counts |-> counts]
        ELSE IF year_unparsed(row, f.status_col_idx, f.year_col_idx) /\ ~value_error_caught
        THEN [frame |-> raised(g, "ValueError"), counts |-> counts]
        ELSE IF row_skipped(row, f.status_col_idx, f.year_col_idx, f.years)
        THEN [frame |-> g, counts |-> counts]
        ELSE IF row_year \notin DOMAIN f.total_by_year
        THEN [frame |-> raised(g, "KeyError"), counts |-> counts]
        ELSE [frame |-> [g EXCEPT !.total_by_year = count_year(@, row_year),
                                  !.total_all = count_total(@)],
              counts |-> count_row(with_key(counts, key, status_value, f.years),
                                   key, row_year)]

\* the percentages and the dict of the normal return
final_step(f) ==
    LET pct(b) == IF f.total_all > 0 THEN with_percentage(b, f.total_all) ELSE b
        subs == [k \in 1..Len(f.em_andamento_subcategorias) |->
                    pct(f.em_andamento_subcategorias[k])]
        g == [f EXCEPT !.concluidos_data = pct(@),
                       !.em_andamento_total = pct(@),
                       !.em_andamento_subcategorias = subs]
    IN  returned(g, [ total_demandado |->
                          [years |-> f.total_by_year, total |-> f.total_all,
                           percentage |-> AllPercent],
                      concluidos |-> g.concluidos_data,
                      em_andamento |-> [total |-> g.em_andamento_total,
                                        subcategorias |-> subs],
                      years |-> f.years ])

\* the next step of a call: its locals f and the dict counts it works on,
\* after the step
call_step(f, counts) ==
    CASE f.pc = "start" ->
           [frame |-> IF f.headers = <<>> \/ f.rows = <<>>
                      THEN returned(f, empty_result(f.years))
                      ELSE [f EXCEPT !.pc = "status_column"],
            counts |-> counts]
      [] f.pc = "status_column" ->
           LET idx == find_column(f.headers, lower(strip(f.status_column)))
               g == [f EXCEPT !.status_col_idx = idx]
           IN  [frame |-> IF idx = None
                          THEN returned(g, status_not_found_result(
                                               f.headers, f.status_column, f.years))
                          ELSE [g EXCEPT !.pc = "year_column"],
                counts |-> counts]
      [] f.pc = "year_column" ->
           LET idx == find_column(f.headers, lower(year_column_name))
               g == [f EXCEPT !.year_col_idx = idx]
           IN  IF idx = None
               THEN [frame |-> returned(g, year_not_found_result(f.headers, f.years)),
                     counts |-> counts]
               ELSE [frame |-> [g EXCEPT !.pc = "rows",
                                         !.total_by_year = zero_years(f.years),
                                         !.total_all = 0],
                     counts |-> <<>>]
      [] f.pc = "rows" /\ f.row_i < Len(f.rows) -> row_step(f, counts)
      [] f.pc = "rows" /\ f.row_i = Len(f.rows) ->
           [frame |-> [f EXCEPT !.concluidos_data =
                                    concluidos_of(counts, zero_bucket(f.years), f.years),
                                !.em_andamento_subcategorias = subcategorias_of(counts),
                                !.pc = "em_andamento"],
            counts |-> counts]
      [] f.pc = "em_andamento" ->
           [frame |-> [f EXCEPT !.em_andamento_total =
                                    em_andamento_total_of(f.em_andamento_subcategorias,
                                                          zero_bucket(f.years), f.years),
                                !.pc = "percentages"],
            counts |-> counts]
      [] f.pc = "percentages" -> [frame |-> final_step(f), counts |-> counts]

finished(f) == f.pc \in {"done", "raised"}

\* a call run from its locals f to its end with a dict of its own
RECURSIVE run(_, _)
run(f, counts) ==
    IF finished(f) THEN f
    ELSE LET after == call_step(f, counts)
         IN  run(after.frame, after.counts)

\* process_enel_legalizacao_data(data, status_column, years), run alone
aggregate(hs, rs, sc, ys) == run(new_call(hs, rs, sc, ys), <<>>)

\* ------------------------------------------------------ concurrent calls
NumCalls == 2

CallIds == 1..NumCalls

\* every call working on one dict, that of the first call
counts_owner_shared(c) == 1

\* status_counts = {}: a local name bound to a dict made by the call itself
counts_owner(c) == c

\* the requests that run together: each with a dataset and a years list of
\* its own
ConcurrentDatasets ==
    { << processed_row(<<StrVal(Concluido), IntVal(2024)>>),
         processed_row(<<StrVal(EmAnalise), IntVal(2025)>>) >>,
      << processed_row(<<StrVal(EmAnalise), IntVal(2025)>>) >> }

ConcurrentInputs ==
    { new_call(<<Status, AnoAcionamento>>, d, Status, ys) :
          d \in ConcurrentDatasets, ys \in { <<2024, 2025>>, <<2025, 2024>> } }

\* the single call of Spec does not run
AggregationIdle ==
    /\ headers = <<>>
    /\ rows = <<>>
    /\ status_column = <<>>
    /\ years = <<>>
    /\ pc = "idle"
    /\ status_col_idx = None
    /\ year_col_idx = None
    /\ row_i = 0
    /\ status_counts = <<>>
    /\ total_by_year = <<>>
    /\ total_all = 0
    /\ concluidos_data = <<>>
    /\ em_andamento_subcategorias = <<>>
    /\ em_andamento_total = <<>>
    /\ result = <<>>
    /\ exc = "None"

InitConcurrent ==
    /\ calls \in [CallIds -> ConcurrentInputs]
    /\ heap = [c \in CallIds |-> <<>>]
    /\ AggregationIdle
    /\ ReaderIdle
    /\ UsersIdle
    /\ StorageIdle
    /\ ParsingIdle

\* call c takes its next step, the other calls stand where they are
CallStep(c) ==
    /\ ~finished(calls[c])
    /\ LET after == call_step(calls[c], heap[counts_owner(c)])
       IN  /\ calls' = [calls EXCEPT ![c] = after.frame]
           /\ heap' = [heap EXCEPT ![counts_owner(c)] = after.counts]
    /\ UNCHANGED <<vars, reader_vars, users_vars, storage_vars, parse_vars>>

NextConcurrent == \E c \in CallIds : CallStep(c)

SpecConcurrent == InitConcurrent /\ [][NextConcurrent]_all_vars

\* -------------------------------------------------- read_spreadsheet_file
DotCsv == <<".","c","s","v">>
DotXlsx == <<".","x","l","s","x">>
DotXls == <<".","x","l","s">>

\* Path(file_path).suffix of the paths tried, "" for a path with no suffix
Suffixes ==
    { DotCsv, <<".","C","S","V">>, DotXlsx, <<".","X","l","s">>,
      <<".","t","x","t">>, <<>> }

\* a DataFrame: the column labels and the rows of cells
Frames ==
    { [columns |-> <<Status, AnoAcionamento>>,
       values |-> << <<StrVal(Concluido), IntVal(2024)>>,
                     <<StrVal(Cancelado), NaN>> >>],
      [columns |-> <<StatusPadded>>, values |-> << <<StrVal(EmAnalise)>> >>] }

\* what a file holds: comma separated text, a workbook with its sheets in
\* order, or bytes that are neither
Contents ==
    { [kind |-> "csv", sheets |-> <<[name |-> "", frame |-> f]>>] : f \in Frames }
    \cup { [kind |-> "xlsx",
            sheets |-> <<[name |-> "Dados", frame |-> f],
                         [name |-> "Resumo", frame |-> g]>>] :
               f \in Frames, g \in Frames }
    \cup { [kind |-> "garbage", sheets |-> <<>>] }

\* sheet_name as passed: None, a sheet of the workbook, a sheet it has not
SheetArgs == { "", "Resumo", "Outra" }

raises(e) == [ok |-> FALSE, error |-> e, frame |-> <<>>]

gives(f) == [ok |-> TRUE, error |-> "None", frame |-> f]

\* pd.read_csv(file_path, encoding='utf-8')
read_csv(f) ==
    IF ~f.exists THEN raises("FileNotFoundError")
    ELSE IF f.content.kind # "csv" THEN raises("ParserError")
    ELSE gives(f.content.sheets[1].frame)

\* pd.read_excel(file_path, sheet_name=name, engine='openpyxl')
read_excel(f, name) ==
    IF ~f.exists THEN raises("FileNotFoundError")
    ELSE IF f.content.kind # "xlsx" THEN raises("BadZipFile")
    ELSE LET hits == { k \in 1..Len(f.content.sheets) : f.content.sheets[k].name = name }
         IN  IF hits = {} THEN raises("ValueError")
             ELSE gives(f.content.sheets[CHOOSE k \in hits : TRUE].frame)

\* the body of the try as far as the DataFrame: the outcome of the read and
\* the sheet name the call goes on with
read_frame(f, sheet_name) ==
    LET file_ext == lower(f.suffix)
    IN  IF file_ext = DotCsv
        THEN [outcome |-> read_csv(f), sheet_name |-> sheet_name]
        ELSE IF file_ext \in { DotXlsx, DotXls }
        THEN IF sheet_name # ""
             THEN [outcome |-> read_excel(f, sheet_name), sheet_name |-> sheet_name]
             ELSE IF ~f.exists \/ f.content.kind # "xlsx"
             THEN \* pd.ExcelFile(file_path, engine='openpyxl') raises
                  [outcome |-> read_excel(f, sheet_name), sheet_name |-> sheet_name]
             ELSE \* sheet_name = excel_file.sheet_names[0]
                  [outcome |-> read_excel(f, f.content.sheets[1].name),
                   sheet_name |-> f.content.sheets[1].name]
        ELSE [outcome |-> raises("ValueError"), sheet_name |-> sheet_name]

\* the dict returned for a DataFrame
dataset_of(frame, sheet_name) ==
    [ values |-> [k \in 1..Len(frame.values) |-> processed_row(frame.values[k])],
      headers |-> frame.columns,
      sheet_name |-> IF sheet_name # "" THEN sheet_name ELSE "Sheet1" ]

\* an except clause that hands back an empty dataset
swallowed(r, e) ==
    [r EXCEPT !.pc = "done",
              !.result = [values |-> <<>>, headers |-> <<>>, sheet_name |-> "Sheet1"]]

\* except Exception as e: raise ValueError(...)
reraised(r, e) == [r EXCEPT !.pc = "raised", !.exc = "ValueError"]

InitRead ==
    /\ file \in [exists : BOOLEAN, suffix : Suffixes, content : Contents]
    /\ reader \in [pc : {"start"}, sheet_name : SheetArgs, seen : {FALSE},
                   frame : {<<>>}, error : {"None"}, result : {<<>>},
                   exc : {"None"}]
    /\ AggregationIdle
    /\ ConcurrentIdle
    /\ UsersIdle
    /\ StorageIdle
    /\ ParsingIdle

\* if not os.path.exists(file_path): raise FileNotFoundError(...)
CheckExists ==
    /\ reader.pc = "start"
    /\ reader' = IF file.exists
                 THEN [reader EXCEPT !.seen = TRUE, !.pc = "read"]
                 ELSE [reader EXCEPT !.pc = "raised", !.exc = "FileNotFoundError"]
    /\ UNCHANGED <<file, vars, concurrent_vars, users_vars, storage_vars, parse_vars>>

\* the file is deleted by someone else between the test and the read
RemoveFile ==
    /\ reader.pc = "read"
    /\ file.exists
    /\ file' = [file EXCEPT !.exists = FALSE]
    /\ UNCHANGED <<reader, vars, concurrent_vars, users_vars, storage_vars, parse_vars>>

\* the file is read into a DataFrame, or the read raises inside the try
ReadFile ==
    /\ reader.pc = "read"
    /\ LET r == read_frame(file, reader.sheet_name)
       IN  reader' = IF r.outcome.ok
                     THEN [reader EXCEPT !.frame = r.outcome.frame,
                                         !.sheet_name = r.sheet_name,
                                         !.pc = "convert"]
                     ELSE [reader EXCEPT !.error = r.outcome.error, !.pc = "except"]
    /\ UNCHANGED <<file, vars, concurrent_vars, users_vars, storage_vars, parse_vars>>

\* fillna(''), the cells turned into text, return {...}
ConvertFrame ==
    /\ reader.pc = "convert"
    /\ reader' = [reader EXCEPT !.result = dataset_of(reader.frame, reader.sheet_name),
                                !.pc = "done"]
    /\ UNCHANGED <<file, vars, concurrent_vars, users_vars, storage_vars, parse_vars>>

HandleException ==
    /\ reader.pc = "except"
    /\ reader' = reraised(reader, reader.error)
    /\ UNCHANGED <<file, vars, concurrent_vars, users_vars, storage_vars, parse_vars>>

NextRead ==
    \/ CheckExists
    \/ RemoveFile
    \/ ReadFile
    \/ ConvertFrame
    \/ HandleException

SpecRead == InitRead /\ [][NextRead]_all_vars

\* ------------------------------------------------- /api/users and auth
AsciiLetters == { UpperChars[k] : k \in 1..26 } \cup { LowerChars[k] : k \in 1..26 }

\* re.match(r'^[a-zA-Z0-9._%+-]+@[a-zA-Z0-9.-]+\.[a-zA-Z]{2,}$', email)
email_matches(e) ==
    \E i, j \in 1..Len(e) :
        /\ 1 < i /\ i + 1 < j /\ j + 2 <= Len(e)
        /\ e[i] = "@"
        /\ e[j] = "."
        /\ \A k \in 1..(i - 1) :
               e[k] \in AsciiLetters \/ IsDigit(e[k]) \/ e[k] \in {".", "_", "%", "+", "-"}
        /\ \A k \in (i + 1)..(j - 1) :
               e[k] \in AsciiLetters \/ IsDigit(e[k]) \/ e[k] \in {".", "-"}
        /\ \A k \in (j + 1)..Len(e) : e[k] \in AsciiLetters

\* normalize_email: None for no email, ValueError (ok FALSE) for a text that
\* is no address, else the address trimmed and in lower case
normalize_email(e) ==
    IF e = <<>> THEN [ok |-> TRUE, email |-> <<>>]
    ELSE IF email_matches(lower(strip(e))) THEN [ok |-> TRUE, email |-> lower(strip(e))]
    ELSE [ok |-> FALSE, email |-> <<>>]

\* the emails sent: two addresses, one of them also padded and in capitals,
\* a text that is no address, no email
EmailPool ==
    { <<"a","@","b",".","c","o">>, <<" ","A","@","B",".","c","o">>,
      <<"c","@","d",".","i","o">>, <<"a","@","b">>, <<>> }

\* a JWT: signed with JWT_SECRET or not, past its exp or not, its role claim
Tokens == [signed : BOOLEAN, expired : BOOLEAN, role : {"dev-master", "viewer", ""}]

\* the Authorization header: none, a token alone, "Bearer <token>", "Bearer"
\* and the token with two blanks between them
Headers ==
    { [form |-> f, token |-> [signed |-> TRUE, expired |-> FALSE, role |-> "dev-master"]] :
          f \in {"absent", "bare", "two blanks"} }
    \cup { [form |-> "bearer", token |-> t] : t \in Tokens }

\* request.json: nome and senha, role; "" for a key that is not sent
Bodies == { [nome |-> "Bia", role |-> "viewer"], [nome |-> "", role |-> ""] }

Routes ==
    { "get_users", "create_user", "get_user", "update_user", "delete_user",
      "forgot_password" }

\* a request as it arrives; the routes /api/users/<email> match a non-empty
\* email only
Requests ==
    { q \in [route : Routes, header : Headers, email : EmailPool, body : Bodies,
             pc : {"login", "handler"},
             current_user : {[ok |-> FALSE, role |-> ""]},
             status : {0}, message : {""}] :
          /\ q.pc = "handler" <=> q.route = "forgot_password"
          /\ q.route \in {"get_user", "update_user", "delete_user"} => q.email # <<>> }

\* auth_header.split(' ')[1]: given is `token` being there and not empty (no
\* header and no second part give None, two blanks give '')
get_token_from_request(h) ==
    CASE h.form = "absent" -> [given |-> FALSE, token |-> h.token]
      [] h.form = "bare" -> [given |-> FALSE, token |-> h.token]
      [] h.form = "two blanks" -> [given |-> FALSE, token |-> h.token]
      [] h.form = "bearer" -> [given |-> TRUE, token |-> h.token]

\* jwt.decode(token, JWT_SECRET, ...): the payload, None when the token is
\* expired or invalid
verify_token(t) ==
    IF t.signed /\ ~t.expired THEN [ok |-> TRUE, role |-> t.role]
    ELSE [ok |-> FALSE, role |-> ""]

\* a role test that lets every role through
role_denied_never(payload, required_role) == FALSE

\* request.current_user.get('role') != required_role
role_denied(payload, required_role) == payload.role # required_role

\* return jsonify({...}), status
respond(r, status, message) ==
    [r EXCEPT !.pc = "responded", !.status = status, !.message = message]

\* the response of forgot_password for an email, as [status, message]; the
\* TOTP message comes with 'requires_totp': True
forgot_password(table, email) ==
    IF email = <<>> THEN [status |-> 400, message |-> "Email é obrigatório"]
    ELSE IF ~normalize_email(email).ok
    THEN [status |-> 500, message |-> "ValueError"]
    ELSE IF normalize_email(email).email \notin DOMAIN table
    THEN [status |-> 200, message |-> "Se o email existir, você receberá instruções"]
    ELSE [status |-> 200, message |-> "Forneça o código TOTP de 6 dígitos"]

InitUsers ==
    /\ users = ( <<"a","@","b",".","c","o">> :> [nome |-> "Ana", role |-> "dev-master"] )
    /\ req \in Requests
    /\ AggregationIdle
    /\ ConcurrentIdle
    /\ ReaderIdle
    /\ StorageIdle
    /\ ParsingIdle

\* the next request arrives
NewRequest ==
    /\ req.pc = "responded"
    /\ req' \in Requests
    /\ UNCHANGED <<users, vars, concurrent_vars, reader_vars, storage_vars, parse_vars>>

\* login_required: run once as the outer decorator of the route and once
\* more inside role_required
LoginRequired ==
    /\ req.pc \in {"login", "role_login"}
    /\ LET token == get_token_from_request(req.header)
           payload == verify_token(token.token)
       IN  req' = IF ~token.given
                  THEN respond(req, 401, "Token não fornecido")
                  ELSE IF ~payload.ok
                  THEN respond(req, 401, "Token inválido ou expirado")
                  ELSE [req EXCEPT !.current_user = payload,
                                   !.pc = IF req.pc = "login" THEN "role_login"
                                          ELSE "role"]
    /\ UNCHANGED <<users, vars, concurrent_vars, reader_vars, storage_vars, parse_vars>>

\* role_required('dev-master')
RoleRequired ==
    /\ req.pc = "role"
    /\ req' = IF role_denied(req.current_user, "dev-master")
              THEN respond(req, 403, "Acesso negado. Role insuficiente.")
              ELSE [req EXCEPT !.pc = "handler"]
    /\ UNCHANGED <<users, vars, concurrent_vars, reader_vars, storage_vars, parse_vars>>

GetUsers ==
    /\ req.pc = "handler"
    /\ req.route = "get_users"
    /\ req' = respond(req, 200, "users")
    /\ UNCHANGED <<users, vars, concurrent_vars, reader_vars, storage_vars, parse_vars>>

CreateUser ==
    /\ req.pc = "handler"
    /\ req.route = "create_user"
    /\ LET email == normalize_email(req.email)
       IN  IF req.email = <<>> \/ req.body.nome = "" \/ req.body.role = ""
           THEN req' = respond(req, 400, "Dados incompletos") /\ UNCHANGED users
           ELSE IF ~email.ok
           THEN req' = respond(req, 500, "ValueError") /\ UNCHANGED users
           ELSE IF email.email \in DOMAIN users
           THEN req' = respond(req, 400, "Email já existe") /\ UNCHANGED users
           ELSE /\ users' = users @@ (email.email :> req.body)
                /\ req' = respond(req, 201, "Usuário criado com sucesso")
    /\ UNCHANGED <<vars, concurrent_vars, reader_vars, storage_vars, parse_vars>>

GetUser ==
    /\ req.pc = "handler"
    /\ req.route = "get_user"
    /\ LET email == normalize_email(req.email)
       IN  req' = IF ~email.ok THEN respond(req, 500, "ValueError")
                  ELSE IF email.email \notin DOMAIN users
                  THEN respond(req, 404, "Usuário não encontrado")
                  ELSE respond(req, 200, "user")
    /\ UNCHANGED <<users, vars, concurrent_vars, reader_vars, storage_vars, parse_vars>>

UpdateUser ==
    /\ req.pc = "handler"
    /\ req.route = "update_user"
    /\ LET email == normalize_email(req.email)
       IN  IF ~email.ok
           THEN req' = respond(req, 500, "ValueError") /\ UNCHANGED users
           ELSE IF (req.body.nome = "" /\ req.body.role = "")
                   \/ email.email \notin DOMAIN users
           THEN req' = respond(req, 404, "Usuário não encontrado") /\ UNCHANGED users
           ELSE /\ users' = [users EXCEPT ![email.email] =
                                [nome |-> IF req.body.nome = "" THEN @.nome
                                          ELSE req.body.nome,
                                 role |-> IF req.body.role = "" THEN @.role
                                          ELSE req.body.role]]
                /\ req' = respond(req, 200, "Usuário atualizado com sucesso")
    /\ UNCHANGED <<vars, concurrent_vars, reader_vars, storage_vars, parse_vars>>

DeleteUser ==
    /\ req.pc = "handler"
    /\ req.route = "delete_user"
    /\ LET email == normalize_email(req.email)
       IN  IF ~email.ok
           THEN req' = respond(req, 500, "ValueError") /\ UNCHANGED users
           ELSE IF email.email \notin DOMAIN users
           THEN req' = respond(req, 404, "Usuário não encontrado") /\ UNCHANGED users
           ELSE /\ users' = [e \in DOMAIN users \ {email.email} |-> users[e]]
                /\ req' = respond(req, 200, "Usuário removido com sucesso")
    /\ UNCHANGED <<vars, concurrent_vars, reader_vars, storage_vars, parse_vars>>

\* POST /api/auth/forgot-password, a route with no decorator
ForgotPassword ==
    /\ req.pc = "handler"
    /\ req.route = "forgot_password"
    /\ LET answer == forgot_password(users, req.email)
       IN  req' = respond(req, answer.status, answer.message)
    /\ UNCHANGED <<users, vars, concurrent_vars, reader_vars, storage_vars, parse_vars>>

NextUsers ==
    \/ NewRequest
    \/ LoginRequired
    \/ RoleRequired
    \/ GetUsers
    \/ CreateUser
    \/ GetUser
    \/ UpdateUser
    \/ DeleteUser
    \/ ForgotPassword

SpecUsers == InitUsers /\ [][NextUsers]_all_vars

\* ---------------------------------------- spreadsheets: uploads and files
\* SpecStorage            the upload, delete, info and report routes served
\*                        one request at a time
\* SpecStorageFair        the same, every request of the pool asked again
\*                        and again and every request served to its end
\* SpecStorageConcurrent  two uploads for the same key served at once
\* SpecFallback           GET /api/enel-spreadsheets/<name>/data when the
\*                        recorded file is missing
\* A file is named by its name inside SPREADSHEETS_DIR.

BaseCeara ==
    <<"B","a","s","e"," ","C","e","a","r","a"," ","A","l","v","a","r","á",
      "s"," ","d","e"," ","f","u","n","c","i","o","n","a","m","e","n","t",
      "o">>
CteepAtualizada ==
    <<"C","T","E","E","P"," ","A","T","U","A","L","I","Z","A","D","A"," ",
      "-"," ","B","A","S","E"," ","M","R"," ","2","0","2","5">>
EnelLegalizacaoCE ==
    <<"E","N","E","L"," ","-"," ","L","e","g","a","l","i","z","a","ç","ã",
      "o"," ","C","E">>
LegalizacaoRJ ==
    <<"L","E","G","A","L","I","Z","A","Ç","Ã","O"," ","R","J","_","2","8",
      "-","0","4">>
LegalizacaoSP ==
    <<"L","e","g","a","l","i","z","a","ç","ã","o"," ","S","P">>
RegularizacoesSP ==
    <<"R","e","g","u","l","a","r","i","z","a","ç","õ","e","s"," ","S","P">>
RegularizacaoRJ ==
    <<"R","e","g","i","s","t","r","a","l"," ","e"," ","N","o","t","a","r",
      "i","a","l"," ","-"," ","R","e","g","u","l","a","r","i","z","a","ç",
      "ã","o"," ","R","J">>
EnelPrefix ==
    <<"E","N","E","L","_">>
BaseXlsx ==
    <<"b","a","s","e",".","x","l","s","x">>
BaseCsv ==
    <<"b","a","s","e",".","c","s","v">>
NotesTxt ==
    <<"n","o","t","e","s",".","t","x","t">>
RegionalSp ==
    <<"s","p">>


ENEL_REQUIRED_SPREADSHEETS ==
    <<BaseCeara, CteepAtualizada, EnelLegalizacaoCE, LegalizacaoRJ,
      LegalizacaoSP, RegularizacoesSP>>

ALLOWED_EXTENSIONS == {<<"x","l","s","x">>, <<"x","l","s">>, <<"c","s","v">>}

\* no path, no row: Python's None
NoFile == <<>>

\* position of the last '.' of a text, 0 if it has none
last_dot(s) ==
    IF \E k \in 1..Len(s) : s[k] = "."
    THEN CHOOSE k \in 1..Len(s) :
             s[k] = "." /\ \A j \in (k + 1)..Len(s) : s[j] # "."
    ELSE 0

allowed_file(filename) ==
    /\ last_dot(filename) > 0
    /\ lower(SubSeq(filename, last_dot(filename) + 1, Len(filename)))
           \in ALLOWED_EXTENSIONS

\* Path(name).suffix and Path(name).stem: a leading '.' starts no suffix
suffix(name) ==
    IF last_dot(name) > 1 THEN SubSeq(name, last_dot(name), Len(name)) ELSE <<>>

stem(name) ==
    IF last_dot(name) > 1 THEN SubSeq(name, 1, last_dot(name) - 1) ELSE name

\* werkzeug's secure_filename on a name of ASCII characters: the words
\* joined by '_', every character outside [A-Za-z0-9_.-] dropped
secure_filename(filename) ==
    LET kept(c) == \/ IsDigit(c)
                   \/ c \in {"_", ".", "-"}
                   \/ \E k \in 1..26 : c \in {UpperChars[k], LowerChars[k]}
    IN  CHOOSE name \in
            { SelectSeq([k \in 1..Len(words) |->
                            IF words[k] = " " THEN "_" ELSE words[k]], kept) :
                  words \in {join_split(filename)} } : TRUE

\* str.upper()
upper(s) ==
    [k \in 1..Len(s) |->
        IF \E j \in 1..Len(LowerChars) : LowerChars[j] = s[k]
        THEN UpperChars[CHOOSE j \in 1..Len(LowerChars) : LowerChars[j] = s[k]]
        ELSE s[k]]

\* the chain of str.replace calls that makes the id of a spreadsheet name
safe_spreadsheet_id(spreadsheet_name) ==
    [k \in 1..Len(spreadsheet_name) |->
        LET c == spreadsheet_name[k]
        IN  IF c \in {" ", "/", "\\"} THEN "_"
            ELSE IF c \in {"á", "ã"} THEN "a"
            ELSE IF c \in {"Á", "Ã"} THEN "A"
            ELSE c]

\* safe_filename of upload_enel_spreadsheet
enel_safe_filename(spreadsheet_name, filename) ==
    CHOOSE name \in
        { EnelPrefix \o safe_spreadsheet_id(spreadsheet_name)
              \o (IF \E k \in 1..Len(original_filename) : original_filename[k] = "."
                  THEN suffix(original_filename)
                  ELSE <<".","x","l","s","x">>) :
              original_filename \in {secure_filename(filename)} } : TRUE

\* safe_filename of upload_spreadsheet
regional_safe_filename(regional, filename) ==
    CHOOSE name \in
        { regional \o <<"_">> \o stem(secured) \o suffix(secured) :
              secured \in {secure_filename(filename)} } : TRUE

\* a request: the route asked, the key sent with it (spreadsheet_name or
\* regional), the name of the file sent
Request(route, key, filename) ==
    [route |-> route, key |-> key, filename |-> filename]

ReportRoutes == {"regularizacao_sp", "regularizacao_rj", "regularizacao_cteep"}

StorageRequests ==
    { Request("upload_enel", n, f) :
          n \in {RegularizacoesSP, CteepAtualizada, RegularizacaoRJ},
          f \in {BaseXlsx, BaseCsv} }
    \cup { Request("upload_regional", RegionalSp, f) :
               f \in {BaseXlsx, BaseCsv, NotesTxt} }
    \cup { Request("delete_regional", RegionalSp, NoFile),
           Request("info_regional", RegionalSp, NoFile),
           Request("info_enel", RegularizacoesSP, NoFile) }
    \cup { Request(r, NoFile, NoFile) : r \in ReportRoutes }

\* the locals of a handler: the file it saved, the file_path of the row it
\* selected, its connection ("none", "open", "closed"), where it stands and
\* the status it answered (0 until it answers)
idle_frame ==
    [route |-> "none", key |-> NoFile, filename |-> NoFile, file_path |-> NoFile,
     existing |-> NoFile, conn |-> "none", pc |-> "idle", status |-> 0]

frame_of(r) ==
    [idle_frame EXCEPT !.route = r.route, !.key = r.key,
                       !.filename = r.filename, !.pc = "start"]

answered(f, status) == [f EXCEPT !.pc = "done", !.status = status]

in_progress(f) == f.pc \notin {"idle", "done"}

\* a row of either table
Row(key, file_path, file_name) ==
    [key |-> key, file_path |-> file_path, file_name |-> file_name]

\* SELECT ... WHERE key = ? and fetchone(): the row's file_path, None if no row
old_file_path(table, key) ==
    IF \E r \in table : r.key = key
    THEN (CHOOSE r \in table : r.key = key).file_path
    ELSE NoFile

\* UPDATE ... SET file_path = ?, file_name = ? WHERE key = ?
update_row(table, key, file_path, file_name) ==
    { IF r.key = key THEN Row(key, file_path, file_name) ELSE r : r \in table }

\* UNIQUE(regional), UNIQUE(spreadsheet_name): the INSERT that sqlite refuses
integrity_error(table, key) == \E r \in table : r.key = key

\* the old file is removed whatever the path of the new one
differs_always(old_path, file_path) == TRUE

\* upload_enel_spreadsheet: old_file_path != str(file_path)
differs(old_path, file_path) == old_path # file_path

InitStorage ==
    /\ disk = {}
    /\ db = [spreadsheets |-> {}, enel_spreadsheets |-> {}]
    /\ serving = [p \in {1} |-> idle_frame]
    /\ AggregationIdle
    /\ ConcurrentIdle
    /\ ReaderIdle
    /\ UsersIdle
    /\ ParsingIdle

storage_others == <<vars, concurrent_vars, reader_vars, users_vars, parse_vars>>

\* a request reaches a worker that serves no request
Accept(p, r) ==
    /\ ~in_progress(serving[p])
    /\ serving' = [serving EXCEPT ![p] = frame_of(r)]
    /\ UNCHANGED <<disk, db, storage_others>>

Arrive(p) == \E r \in StorageRequests : Accept(p, r)

\* POST /api/enel-spreadsheets/upload, one step of the handler
UploadEnel(p) ==
    LET f == serving[p]
        spreadsheet_name == strip(f.key)
        table == db.enel_spreadsheets
    IN  /\ f.route = "upload_enel"
        /\ in_progress(f)
        /\ CASE f.pc = "start" ->
                  IF \/ f.filename = <<>>
                     \/ ~allowed_file(f.filename)
                     \/ spreadsheet_name = <<>>
                     \/ spreadsheet_name \notin Range(ENEL_REQUIRED_SPREADSHEETS)
                  THEN /\ serving' = [serving EXCEPT ![p] = answered(f, 400)]
                       /\ UNCHANGED <<disk, db>>
                  ELSE \E file_path \in
                               {enel_safe_filename(spreadsheet_name, f.filename)} :
                           /\ disk' = disk \cup {file_path}
                           /\ serving' = [serving EXCEPT ![p] =
                                  [f EXCEPT !.file_path = file_path, !.pc = "saved"]]
                           /\ UNCHANGED db
             [] f.pc = "saved" ->
                  /\ IF f.file_path \notin disk
                     THEN serving' = [serving EXCEPT ![p] = answered(f, 500)]
                     ELSE serving' = [serving EXCEPT ![p] =
                              [f EXCEPT !.conn = "open",
                                        !.existing = old_file_path(table, spreadsheet_name),
                                        !.pc = IF old_file_path(table, spreadsheet_name) = NoFile
                                               THEN "write" ELSE "selected"]]
                  /\ UNCHANGED <<disk, db>>
             [] f.pc = "selected" ->
                  /\ disk' = IF f.existing \in disk /\ differs(f.existing, f.file_path)
                             THEN disk \ {f.existing}
                             ELSE disk
                  /\ serving' = [serving EXCEPT ![p] = [f EXCEPT !.pc = "write"]]
                  /\ UNCHANGED db
             [] f.pc = "write" ->
                  /\ IF f.existing # NoFile
                     THEN /\ db' = [db EXCEPT !.enel_spreadsheets =
                                 update_row(table, spreadsheet_name, f.file_path, f.file_path)]
                          /\ serving' = [serving EXCEPT ![p] =
                                 answered([f EXCEPT !.conn = "closed"], 200)]
                     ELSE IF integrity_error(table, spreadsheet_name)
                     THEN /\ serving' = [serving EXCEPT ![p] = answered(f, 500)]
                          /\ UNCHANGED db
                     ELSE /\ db' = [db EXCEPT !.enel_spreadsheets =
                                 table \cup {Row(spreadsheet_name, f.file_path, f.file_path)}]
                          /\ serving' = [serving EXCEPT ![p] =
                                 answered([f EXCEPT !.conn = "closed"], 200)]
                  /\ UNCHANGED disk
        /\ UNCHANGED storage_others

\* POST /api/spreadsheets/upload, one step of the handler
UploadSpreadsheet(p) ==
    LET f == serving[p]
        regional == upper(f.key)
        table == db.spreadsheets
    IN  /\ f.route = "upload_regional"
        /\ in_progress(f)
        /\ CASE f.pc = "start" ->
                  IF \/ f.filename = <<>>
                     \/ ~allowed_file(f.filename)
                     \/ regional = <<>>
                  THEN /\ serving' = [serving EXCEPT ![p] = answered(f, 400)]
                       /\ UNCHANGED <<disk, db>>
                  ELSE \E file_path \in {regional_safe_filename(regional, f.filename)} :
                           /\ disk' = disk \cup {file_path}
                           /\ serving' = [serving EXCEPT ![p] =
                                  [f EXCEPT !.file_path = file_path, !.pc = "saved"]]
                           /\ UNCHANGED db
             [] f.pc = "saved" ->
                  /\ serving' = [serving EXCEPT ![p] =
                         [f EXCEPT !.conn = "open",
                                   !.existing = old_file_path(table, regional),
                                   !.pc = IF old_file_path(table, regional) = NoFile
                                          THEN "write" ELSE "selected"]]
                  /\ UNCHANGED <<disk, db>>
             [] f.pc = "selected" ->
                  /\ disk' = disk \ {f.existing}
                  /\ serving' = [serving EXCEPT ![p] = [f EXCEPT !.pc = "write"]]
                  /\ UNCHANGED db
             [] f.pc = "write" ->
                  /\ IF f.existing # NoFile
                     THEN /\ db' = [db EXCEPT !.spreadsheets =
                                 update_row(table, regional, f.file_path,
                                            secure_filename(f.filename))]
                          /\ serving' = [serving EXCEPT ![p] =
                                 answered([f EXCEPT !.conn = "closed"], 200)]
                     ELSE IF integrity_error(table, regional)
                     THEN /\ serving' = [serving EXCEPT ![p] = answered(f, 500)]
                          /\ UNCHANGED db
                     ELSE /\ db' = [db EXCEPT !.spreadsheets =
                                 table \cup {Row(regional, f.file_path,
                                                 secure_filename(f.filename))}]
                          /\ serving' = [serving EXCEPT ![p] =
                                 answered([f EXCEPT !.conn = "closed"], 200)]
                  /\ UNCHANGED disk
        /\ UNCHANGED storage_others

\* DELETE /api/spreadsheets/<regional>, one step of the handler
DeleteSpreadsheet(p) ==
    LET f == serving[p]
        regional == upper(f.key)
        table == db.spreadsheets
    IN  /\ f.route = "delete_regional"
        /\ in_progress(f)
        /\ CASE f.pc = "start" ->
                  /\ IF old_file_path(table, regional) = NoFile
                     THEN serving' = [serving EXCEPT ![p] =
                              answered([f EXCEPT !.conn = "open"], 404)]
                     ELSE serving' = [serving EXCEPT ![p] =
                              [f EXCEPT !.conn = "open",
                                        !.existing = old_file_path(table, regional),
                                        !.pc = "selected"]]
                  /\ UNCHANGED <<disk, db>>
             [] f.pc = "selected" ->
                  /\ disk' = disk \ {f.existing}
                  /\ serving' = [serving EXCEPT ![p] = [f EXCEPT !.pc = "write"]]
                  /\ UNCHANGED db
             [] f.pc = "write" ->
                  /\ db' = [db EXCEPT !.spreadsheets =
                                { r \in table : r.key # regional }]
                  /\ serving' = [serving EXCEPT ![p] =
                         answered([f EXCEPT !.conn = "closed"], 200)]
                  /\ UNCHANGED disk
        /\ UNCHANGED storage_others

\* GET /api/spreadsheets/<regional>
GetSpreadsheetInfo(p) ==
    LET f == serving[p]
    IN  /\ f.route = "info_regional"
        /\ f.pc = "start"
        /\ serving' = [serving EXCEPT ![p] =
               answered([f EXCEPT !.conn = "closed",
                                  !.existing = old_file_path(db.spreadsheets, upper(f.key))],
                        IF old_file_path(db.spreadsheets, upper(f.key)) = NoFile
                        THEN 404 ELSE 200)]
        /\ UNCHANGED <<disk, db, storage_others>>

\* GET /api/enel-spreadsheets/<spreadsheet_name>
GetEnelSpreadsheetInfo(p) ==
    LET f == serving[p]
    IN  /\ f.route = "info_enel"
        /\ f.pc = "start"
        /\ serving' = [serving EXCEPT ![p] =
               answered([f EXCEPT !.conn = "closed",
                                  !.existing = old_file_path(db.enel_spreadsheets, f.key)],
                        IF old_file_path(db.enel_spreadsheets, f.key) = NoFile
                        THEN 404 ELSE 200)]
        /\ UNCHANGED <<disk, db, storage_others>>

\* the spreadsheet each regularizacao endpoint looks up
report_spreadsheet_name(route) ==
    CASE route = "regularizacao_sp" -> RegularizacoesSP
      [] route = "regularizacao_rj" -> RegularizacaoRJ
      [] route = "regularizacao_cteep" -> CteepAtualizada

\* reports._find_enel_spreadsheet_file on the table and the directory as
\* they are: the recorded file, else ENEL_<id>.xlsx, else ENEL_<id>.xls,
\* else the recorded file_name, else None
find_enel_spreadsheet_file(table, files, spreadsheet_name) ==
    IF ~\E r \in table : r.key = spreadsheet_name THEN NoFile
    ELSE LET hit == CHOOSE r \in table : r.key = spreadsheet_name
             expected(ext) ==
                 EnelPrefix \o safe_spreadsheet_id(spreadsheet_name) \o ext
         IN  IF hit.file_path \in files THEN hit.file_path
             ELSE IF expected(<<".","x","l","s","x">>) \in files
                  THEN expected(<<".","x","l","s","x">>)
             ELSE IF expected(<<".","x","l","s">>) \in files
                  THEN expected(<<".","x","l","s">>)
             ELSE IF hit.file_name # <<>> /\ hit.file_name \in files
                  THEN hit.file_name
             ELSE NoFile

\* GET /api/regularizacao/sp, /rj, /cteep: 404 'Planilha não encontrada'
\* when the lookup gives no file, else the answer made from the file
GetRegularizacao(p) ==
    LET f == serving[p]
        found == find_enel_spreadsheet_file(db.enel_spreadsheets, disk,
                                            report_spreadsheet_name(f.route))
    IN  /\ f.route \in ReportRoutes
        /\ f.pc = "start"
        /\ serving' = [serving EXCEPT ![p] =
               answered([f EXCEPT !.conn = "closed", !.file_path = found],
                        IF found = NoFile THEN 404 ELSE 200)]
        /\ UNCHANGED <<disk, db, storage_others>>

NextStorage ==
    \/ \E p \in DOMAIN serving : Arrive(p)
    \/ \E p \in DOMAIN serving : UploadEnel(p)
    \/ \E p \in DOMAIN serving : UploadSpreadsheet(p)
    \/ \E p \in DOMAIN serving : DeleteSpreadsheet(p)
    \/ \E p \in DOMAIN serving : GetSpreadsheetInfo(p)
    \/ \E p \in DOMAIN serving : GetEnelSpreadsheetInfo(p)
    \/ \E p \in DOMAIN serving : GetRegularizacao(p)

SpecStorage == InitStorage /\ [][NextStorage]_all_vars

\* a request that has reached a worker is served to its end
Serve ==
    \E p \in DOMAIN serving :
        \/ UploadEnel(p)
        \/ UploadSpreadsheet(p)
        \/ DeleteSpreadsheet(p)
        \/ GetSpreadsheetInfo(p)
        \/ GetEnelSpreadsheetInfo(p)
        \/ GetRegularizacao(p)

\* the requests a client of the reports keeps making: the upload of every
\* spreadsheet a regularizacao endpoint looks up, and the three endpoints
ReportClientRequests ==
    { Request("upload_enel", report_spreadsheet_name(route), BaseXlsx) :
          route \in ReportRoutes }
    \cup { Request(route, NoFile, NoFile) : route \in ReportRoutes }

\* the client makes each of its requests again and again, and the server
\* ends the request it has begun before it takes the next
SpecStorageFair ==
    /\ SpecStorage
    /\ WF_all_vars(Serve)
    /\ \A r \in ReportClientRequests :
           SF_all_vars(\E p \in DOMAIN serving : Accept(p, r))

\* two uploads for the same key reach two workers at once; the tables are
\* empty or hold the record an earlier upload for the key has left
InitTwoUploads ==
    /\ \E route \in {"upload_enel", "upload_regional"} :
       \E key \in IF route = "upload_enel"
                  THEN {RegularizacoesSP, CteepAtualizada} ELSE {RegionalSp} :
       \E f1 \in {BaseXlsx, BaseCsv} : \E f2 \in {BaseXlsx, BaseCsv} :
       \E earlier \in {NoFile, BaseXlsx, BaseCsv} :
          LET path == IF route = "upload_enel"
                      THEN enel_safe_filename(key, earlier)
                      ELSE regional_safe_filename(upper(key), earlier)
              row == IF route = "upload_enel"
                     THEN Row(key, path, path)
                     ELSE Row(upper(key), path, secure_filename(earlier))
          IN  /\ serving = [p \in {1, 2} |->
                     frame_of(Request(route, key, IF p = 1 THEN f1 ELSE f2))]
              /\ disk = IF earlier = NoFile THEN {} ELSE {path}
              /\ db = [spreadsheets |->
                           IF earlier # NoFile /\ route = "upload_regional"
                           THEN {row} ELSE {},
                       enel_spreadsheets |->
                           IF earlier # NoFile /\ route = "upload_enel"
                           THEN {row} ELSE {}]
    /\ AggregationIdle
    /\ ConcurrentIdle
    /\ ReaderIdle
    /\ UsersIdle
    /\ ParsingIdle

NextTwoUploads ==
    \/ \E p \in DOMAIN serving : UploadEnel(p)
    \/ \E p \in DOMAIN serving : UploadSpreadsheet(p)

SpecStorageConcurrent == InitTwoUploads /\ [][NextTwoUploads]_all_vars


\* ------------------- GET /api/enel-spreadsheets/<spreadsheet_name>/data
\* s.startswith(prefix)
startswith(s, prefix) ==
    Len(prefix) <= Len(s) /\ SubSeq(s, 1, Len(prefix)) = prefix

\* keywords_map of the last attempt: the variants of each keyword
keywords_map ==
    {
      {<<"c","e","a","r","a">>,
       <<"c","e","a","r","á">>,
       <<"c","e","a","r">>},
      {<<"a","l","v","a","r","a","s">>,
       <<"a","l","v","a","r","á","s">>,
       <<"a","l","v","a","r","a">>},
      {<<"l","e","g","a","l","i","z","a","c","a","o">>,
       <<"l","e","g","a","l","i","z","a","ç","ã","o">>,
       <<"l","e","g","a","l","i","z","a">>},
      {<<"r","e","g","u","l","a","r","i","z","a","c","a","o">>,
       <<"r","e","g","u","l","a","r","i","z","a","ç","ã","o">>,
       <<"r","e","g","u","l","a","r","i","z","a">>}}

\* the files the search for a missing recorded file may take as found_file,
\* none if it finds nothing: ENEL_<id>.xlsx, else ENEL_<id>.xls, else the
\* recorded file_name, else the first file of the directory listing whose
\* name starts with enel_ and for which a keyword is found, else the first
\* ENEL_ file whose name holds a variant of a keyword of the spreadsheet
\* name. The order of a directory listing is not fixed: any file that
\* passes the test may be the first.
found_files(files, spreadsheet_name, file_name) ==
    LET expected(ext) == EnelPrefix \o safe_spreadsheet_id(spreadsheet_name) \o ext
        spreadsheet_name_clean ==
            lower([k \in 1..Len(spreadsheet_name) |->
                      LET c == spreadsheet_name[k]
                      IN  IF c = " " THEN "_"
                          ELSE IF c \in {"á", "ã"} THEN "a"
                          ELSE IF c \in {"Á", "Ã"} THEN "A"
                          ELSE c])
        named(possible_file) ==
            /\ startswith(lower(possible_file), <<"e","n","e","l","_">>)
            /\ \/ contains(<<"c","e","a","r","a">>, spreadsheet_name_clean)
               \/ contains(<<"c","e","a","r","a">>, lower(possible_file))
               \/ contains(<<"a","l","v","a","r","a","s">>, spreadsheet_name_clean)
               \/ contains(<<"a","l","v","a","r","a","s">>, lower(possible_file))
               \/ contains(<<"a","l","v","a","r","á","s">>, lower(possible_file))
        relevant_keywords ==
            UNION { variants \in keywords_map :
                        \E variant \in variants :
                            contains(variant, lower(spreadsheet_name)) }
        related(enel_file) ==
            /\ startswith(enel_file, EnelPrefix)
            /\ \E keyword \in relevant_keywords : contains(keyword, lower(enel_file))
    IN  IF expected(<<".","x","l","s","x">>) \in files
        THEN {expected(<<".","x","l","s","x">>)}
        ELSE IF expected(<<".","x","l","s">>) \in files
        THEN {expected(<<".","x","l","s">>)}
        ELSE IF file_name # <<>> /\ file_name \in files
        THEN {file_name}
        ELSE IF file_name # <<>> /\ \E possible_file \in files : named(possible_file)
        THEN { possible_file \in files : named(possible_file) }
        ELSE { enel_file \in files : related(enel_file) }

\* the spreadsheets whose data is asked
DataNames == {BaseCeara, CteepAtualizada, LegalizacaoRJ, LegalizacaoSP}

\* each spreadsheet has no record or the record its last upload wrote, and
\* the files of some records have gone from the directory since
InitFallback ==
    /\ \E last \in [DataNames -> {NoFile, BaseXlsx, BaseCsv}] :
       \E missing \in SUBSET DataNames :
          /\ db = [spreadsheets |-> {},
                   enel_spreadsheets |->
                       { Row(n, enel_safe_filename(n, last[n]),
                             enel_safe_filename(n, last[n])) :
                             n \in { m \in DataNames : last[m] # NoFile } }]
          /\ disk = { enel_safe_filename(n, last[n]) :
                          n \in { m \in DataNames : last[m] # NoFile } \ missing }
    /\ serving = [p \in {1} |-> idle_frame]
    /\ AggregationIdle
    /\ ConcurrentIdle
    /\ ReaderIdle
    /\ UsersIdle
    /\ ParsingIdle

AcceptData(p) ==
    /\ ~in_progress(serving[p])
    /\ \E n \in DataNames :
           serving' = [serving EXCEPT ![p] = frame_of(Request("data_enel", n, NoFile))]
    /\ UNCHANGED <<disk, db, storage_others>>

\* GET /api/enel-spreadsheets/<spreadsheet_name>/data up to the choice of
\* the file it reads: 404 with no record, the recorded file when it exists,
\* else the file the search finds, 404 when it finds none
GetEnelSpreadsheetData(p) ==
    LET f == serving[p]
        table == db.enel_spreadsheets
        recorded == old_file_path(table, f.key)
        file_name == (CHOOSE r \in table : r.key = f.key).file_name
        closed == [f EXCEPT !.conn = "closed", !.existing = recorded]
    IN  /\ f.route = "data_enel"
        /\ f.pc = "start"
        /\ IF recorded = NoFile
           THEN serving' = [serving EXCEPT ![p] = answered(closed, 404)]
           ELSE IF recorded \in disk
           THEN serving' = [serving EXCEPT ![p] =
                    answered([closed EXCEPT !.file_path = recorded], 200)]
           ELSE IF found_files(disk, f.key, file_name) = {}
           THEN serving' = [serving EXCEPT ![p] = answered(closed, 404)]
           ELSE \E found_file \in found_files(disk, f.key, file_name) :
                    serving' = [serving EXCEPT ![p] =
                        answered([closed EXCEPT !.file_path = found_file], 200)]
        /\ UNCHANGED <<disk, db, storage_others>>

NextFallback ==
    \/ \E p \in DOMAIN serving : AcceptData(p)
    \/ \E p \in DOMAIN serving : GetEnelSpreadsheetData(p)

SpecFallback == InitFallback /\ [][NextFallback]_all_vars

\* ------------------------------------------------- parse_status_data
\* spreadsheet_files.parse_status_data and google_sheets.parse_status_data
\* are the same text line for line but for the three places where a cell
\* is turned into a number; they are modelled as one body that reads those
\* cells with the module's own conversion.
AcionadosEm ==
    <<"A","c","i","o","n","a","d","o","s"," ","e","m">>
TotalColumn ==
    <<"T","O","T","A","L">>
PercentualColumn ==
    <<"P","e","r","c","e","n","t","u","a","l">>
EmAnaliseDisplay ==
    <<"E","m"," ","a","n","á","l","i","s","e">>

\* s with every character of the set chars removed: chained str.replace(c, '')
without(s, chars) == SelectSeq(s, LAMBDA c : c \notin chars)

\* what a conversion gives: a value, or ValueError
converted(value) == [ok |-> TRUE, value |-> value]
value_error == [ok |-> FALSE, value |-> 0]

\* spreadsheet_files: int(value_str) if value_str else 0, after
\* value_str = str(cell).strip().replace(',', '').replace('.', '')
files_int(text) ==
    CHOOSE r \in
        { IF value_str = <<>> THEN converted(0)
          ELSE IF int_ok(value_str) THEN converted(int(value_str))
          ELSE value_error :
              value_str \in {without(strip(text), {",", "."})} } : TRUE

\* google_sheets: int(cell)
sheets_int(text) == IF int_ok(text) THEN converted(int(text)) ELSE value_error

\* float(s) of a str of digits with at most one '.', blanks around it
\* ignored: the exact quotient, in lowest power of ten
float_ok(s) ==
    LET t == strip(s)
    IN  /\ \E k \in 1..Len(t) : IsDigit(t[k])
        /\ \A k \in 1..Len(t) : IsDigit(t[k]) \/ t[k] = "."
        /\ Cardinality({ k \in 1..Len(t) : t[k] = "." }) <= 1

RECURSIVE lowest(_)
lowest(q) ==
    IF q.den > 1 /\ q.num % 10 = 0
    THEN lowest([num |-> q.num \div 10, den |-> q.den \div 10])
    ELSE q

RECURSIVE power_of_ten(_)
power_of_ten(n) == IF n = 0 THEN 1 ELSE 10 * power_of_ten(n - 1)

float(s) ==
    CHOOSE q \in
        { lowest([num |-> DigitsValue(without(t, {"."})),
                  den |-> IF last_dot(t) = 0 THEN 1
                          ELSE power_of_ten(Len(t) - last_dot(t))]) :
              t \in {strip(s)} } : TRUE

\* pct_str of both modules: the cell without '%', ',' turned into '.', stripped
pct_str(text) ==
    strip([k \in 1..Len(without(text, {"%"})) |->
              IF without(text, {"%"})[k] = "," THEN "." ELSE without(text, {"%"})[k]])

\* spreadsheet_files: float(pct_str) if pct_str else 0.0
files_float(text) ==
    CHOOSE r \in
        { IF p = <<>> THEN converted([num |-> 0, den |-> 1])
          ELSE IF float_ok(p) THEN converted(float(p))
          ELSE value_error : p \in {pct_str(text)} } : TRUE

\* google_sheets: float(pct_str)
sheets_float(text) ==
    CHOOSE r \in
        { IF float_ok(p) THEN converted(float(p)) ELSE value_error :
              p \in {pct_str(text)} } : TRUE

cell_int(module, c) ==
    IF module = "spreadsheet_files" THEN files_int(c) ELSE sheets_int(c)

cell_float(module, c) ==
    IF module = "spreadsheet_files" THEN files_float(c) ELSE sheets_float(c)

\* headers.index(name), None when ValueError is caught
index_of(hs, name) ==
    IF \E k \in 1..Len(hs) : hs[k] = name
    THEN (CHOOSE k \in 1..Len(hs) : hs[k] = name /\ \A j \in 1..(k - 1) : hs[j] # name) - 1
    ELSE None

\* one turn of `for row in rows`: status_counts after the row
parse_row(module, counts, row, idx, ys, include_blank) ==
    LET status_value == strip(row[idx.status + 1])
        filled(i) == i # None /\ i < Len(row) /\ row[i + 1] # <<>>
        before == IF status_value \in DOMAIN counts
                  THEN counts[status_value]
                  ELSE [years |-> [y \in Range(ys) |-> 0], total |-> 0,
                        percentage |-> [num |-> 0, den |-> 1]]
        added(y) ==
            IF filled(idx.years[y]) /\ cell_int(module, row[idx.years[y] + 1]).ok
            THEN cell_int(module, row[idx.years[y] + 1]).value
                     * Cardinality({ k \in 1..Len(ys) : ys[k] = y })
            ELSE 0
        after ==
            [years |-> [y \in Range(ys) |-> before.years[y] + added(y)],
             total |-> IF filled(idx.total) /\ cell_int(module, row[idx.total + 1]).ok
                       THEN cell_int(module, row[idx.total + 1]).value
                       ELSE before.total,
             percentage |->
                 IF /\ filled(idx.percentage)
                    /\ cell_float(module, row[idx.percentage + 1]).ok
                 THEN cell_float(module, row[idx.percentage + 1]).value
                 ELSE before.percentage]
    IN  IF Len(row) <= idx.status THEN counts
        ELSE IF status_value = <<>> /\ ~include_blank THEN counts
        ELSE [s \in DOMAIN counts \cup {status_value} |->
                 IF s = status_value THEN after ELSE counts[s]]

RECURSIVE parse_rows(_, _, _, _, _, _)
parse_rows(module, counts, rs, idx, ys, include_blank) ==
    IF rs = <<>> THEN counts
    ELSE parse_rows(module,
                    parse_row(module, counts, Head(rs), idx, ys, include_blank),
                    Tail(rs), idx, ys, include_blank)

\* main_statuses_ordered / other_statuses_ordered: for each status of the
\* configuration, in its order, the entry of the counted status of that
\* sheet_value, named by the first configured status of that sheet_value
ordered_statuses(configured, counts, taken) ==
    LET counted(c) == c.sheet_value \in DOMAIN counts /\ c.sheet_value \notin taken
        kept == SelectSeq(configured, counted)
        first(v) == configured[CHOOSE k \in 1..Len(configured) :
                        /\ configured[k].sheet_value = v
                        /\ \A j \in 1..(k - 1) : configured[j].sheet_value # v]
    IN  [k \in 1..Len(kept) |->
            [name |-> first(kept[k].sheet_value).display_name,
             sheet_value |-> kept[k].sheet_value,
             years |-> counts[kept[k].sheet_value].years,
             total |-> counts[kept[k].sheet_value].total,
             percentage |-> counts[kept[k].sheet_value].percentage]]

\* parse_status_data of either module: what it returns, or the ValueError
\* it raises
parse_status_data(module, data, column, ys, status_config) ==
    LET idx == [status |-> index_of(data.headers, column),
                years |-> [y \in Range(ys) |->
                              index_of(data.headers,
                                       status_config.year_prefix \o <<" ">> \o str_int(y))],
                total |-> index_of(data.headers, status_config.total_column),
                percentage |-> index_of(data.headers, status_config.percentage_column)]
        counts == parse_rows(module, <<>>, data.values, idx, ys,
                             status_config.include_blank)
        main_values == { status_config.main_statuses[k].sheet_value :
                             k \in 1..Len(status_config.main_statuses) }
    IN  IF data.headers = <<>> \/ data.values = <<>>
        THEN [raised |-> "None", main_statuses |-> <<>>, other_statuses |-> <<>>]
        ELSE IF idx.status = None
        THEN [raised |-> "ValueError", main_statuses |-> <<>>, other_statuses |-> <<>>]
        ELSE [raised |-> "None",
              main_statuses |->
                  ordered_statuses(status_config.main_statuses, counts, {}),
              other_statuses |->
                  ordered_statuses(status_config.other_statuses, counts, main_values)]

\* google_sheets.parse_status_data
sheets_parse_status_data(data, column, ys, status_config) ==
    parse_status_data("google_sheets", data, column, ys, status_config)

\* spreadsheet_files.parse_status_data
files_parse_status_data(data, column, ys, status_config) ==
    parse_status_data("spreadsheet_files", data, column, ys, status_config)

\* rows of string cells: status, Acionados em 2024, TOTAL, Percentual
ParseRows ==
    {<<Concluido, <<"3">>, <<"7">>, <<"5","0","%">>>>,
     <<Concluido, <<"1",".","0","0","0">>, <<"1",".","0","0","0">>, <<"1","2",",","5">>>>,
     <<EmAnalise, Blank, Blank, <<"%">>>>,
     <<EmAnalise, Extra, <<"2">>, <<"1">>>>,
     <<Concluido>>,
     <<Blank, <<"2">>, <<"2">>, <<"1">>>>}

ParseHeaders ==
    {<<Status, AcionadosEm \o <<" ","2","0","2","4">>, TotalColumn, PercentualColumn>>,
     <<StatusDetalhado, AcionadosEm \o <<" ","2","0","2","5">>, PercentualColumn>>}

\* status_config with the defaults of its 'columns' entry filled in
StatusConfigs ==
    { [main_statuses |-> <<[sheet_value |-> Concluido, display_name |-> Concluido]>>,
       other_statuses |-> <<[sheet_value |-> EmAnalise, display_name |-> EmAnaliseDisplay],
                            [sheet_value |-> <<>>, display_name |-> Blank]>>,
       include_blank |-> b,
       year_prefix |-> AcionadosEm,
       total_column |-> TotalColumn,
       percentage_column |-> PercentualColumn] : b \in BOOLEAN }

InitParse ==
    /\ \E hs \in ParseHeaders : \E rs \in SeqsUpTo(ParseRows, MaxRows) :
       \E ys \in {<<2024>>, <<2024, 2025>>} : \E config \in StatusConfigs :
          parsing = [data |-> [headers |-> hs, values |-> rs],
                     status_column |-> Status, years |-> ys, status_config |-> config,
                     called |-> {},
                     files |-> [raised |-> "None", main_statuses |-> <<>>,
                                other_statuses |-> <<>>],
                     sheets |-> [raised |-> "None", main_statuses |-> <<>>,
                                 other_statuses |-> <<>>]]
    /\ AggregationIdle
    /\ ConcurrentIdle
    /\ ReaderIdle
    /\ UsersIdle
    /\ StorageIdle

ParseWithFiles ==
    /\ "files" \notin parsing.called
    /\ parsing' = [parsing EXCEPT
           !.called = @ \cup {"files"},
           !.files = files_parse_status_data(parsing.data, parsing.status_column,
                                             parsing.years, parsing.status_config)]
    /\ UNCHANGED <<vars, concurrent_vars, reader_vars, users_vars, storage_vars>>

ParseWithSheets ==
    /\ "sheets" \notin parsing.called
    /\ parsing' = [parsing EXCEPT
           !.called = @ \cup {"sheets"},
           !.sheets = sheets_parse_status_data(parsing.data, parsing.status_column,
                                               parsing.years, parsing.status_config)]
    /\ UNCHANGED <<vars, concurrent_vars, reader_vars, users_vars, storage_vars>>

NextParse ==
    \/ ParseWithFiles
    \/ ParseWithSheets

SpecParse == InitParse /\ [][NextParse]_all_vars

\* the single call of Spec is this function taken step by step
StepwiseIsAggregate ==
    finished([pc |-> pc]) =>
        LET f == aggregate(headers, rows, status_column, years)
        IN  f.pc = pc /\ f.exc = exc /\ f.result = result

\* ------------------------------------------------- reading the result
Returned == pc = "done"

\* the call went through the row loop and returned the aggregated result
Aggregated == pc = "done" /\ status_col_idx # None /\ year_col_idx # None

\* the total of a top-level bucket, 0 for a bucket the result does not have
BucketTotal(r, name) == IF name \in DOMAIN r THEN r[name].total ELSE 0

RECURSIVE SumOver(_, _)
SumOver(f, S) ==
    IF S = {} THEN 0
    ELSE LET x == CHOOSE x \in S : TRUE IN f[x] + SumOver(f, S \ {x})

\* sum(bucket['years'].values())
SumYears(bucket) == SumOver(bucket.years, DOMAIN bucket.years)

Subcats == result.em_andamento.subcategorias

SubcatTotals == SumOver([j \in 1..Len(Subcats) |-> Subcats[j].total], 1..Len(Subcats))

\* p == q for two quotients
PctEq(p, q) == p.num * q.den = q.num * p.den

\* the status text and the year of row k as the row loop reads them
StatusOf(k) == strip(cell(rows[k], status_col_idx))
YearTextOf(k) == strip(cell(rows[k], year_col_idx))
KeyOf(k) == status_normalized(StatusOf(k))

\* the rows of the dataset that are not skipped: status and year present,
\* the year an integer among the requested years
Kept ==
    { k \in 1..Len(rows) :
        /\ StatusOf(k) # <<>>
        /\ YearTextOf(k) # <<>>
        /\ int_ok(YearTextOf(k))
        /\ int(YearTextOf(k)) \in Range(years) }

KeptIn(y) == { k \in Kept : int(YearTextOf(k)) = y }

\* ----------------------------------------------------------------- C1
\* C1: in every result, total_demandado.total equals concluidos.total plus
\* cancelados.total (0 when the result has no such bucket) plus
\* em_andamento.total.total.
C1_TotalIsSumOfBuckets ==
    Returned =>
        result.total_demandado.total =
            result.concluidos.total + BucketTotal(result, "cancelados")
            + result.em_andamento.total.total

C1_Witness ==
    /\ Returned
    /\ result.concluidos.total > 0
    /\ result.em_andamento.total.total > 0
    /\ result.total_demandado.total = 2

\* ----------------------------------------------------------------- C2
\* C2: in every result, also for a years list with a repeated year, the
\* per-year counts of total_demandado, of concluidos, of em_andamento.total
\* and of every subcategory add up to the bucket's total.
C2_YearsSumToTotal ==
    Returned =>
        /\ SumYears(result.total_demandado) = result.total_demandado.total
        /\ SumYears(result.concluidos) = result.concluidos.total
        /\ SumYears(result.em_andamento.total) = result.em_andamento.total.total
        /\ \A j \in 1..Len(Subcats) : SumYears(Subcats[j]) = Subcats[j].total

\* ----------------------------------------------------------------- C3
\* the subcategories of the result filed under a grouping key
PlacesOf(key) == { j \in 1..Len(Subcats) : status_normalized(Subcats[j].name) = key }

\* C3: every row that is not skipped is counted once in total_demandado,
\* under its own year, and in exactly one place: in concluidos (and then in
\* no subcategory) or in exactly one subcategory (and then not in
\* concluidos), there under its own year; concluidos holds counts only under
\* years of rows it counts.
C3_RowCountedInOnePlace ==
    Aggregated =>
        /\ result.total_demandado.total = Cardinality(Kept)
        /\ \A y \in Range(years) :
               result.total_demandado.years[y] = Cardinality(KeptIn(y))
        /\ result.concluidos.total =
               Cardinality({ k \in Kept : is_concluido(KeyOf(k)) })
        /\ \A y \in Range(years) :
               (result.concluidos.years[y] > 0)
                   <=> (\E k \in KeptIn(y) : is_concluido(KeyOf(k)))
        /\ \A k \in Kept :
               IF is_concluido(KeyOf(k)) THEN PlacesOf(KeyOf(k)) = {}
               ELSE Cardinality(PlacesOf(KeyOf(k))) = 1
        /\ \A j \in 1..Len(Subcats) :
               LET key == status_normalized(Subcats[j].name)
               IN  /\ Subcats[j].total = Cardinality({ k \in Kept : KeyOf(k) = key })
                   /\ \A y \in Range(years) :
                          Subcats[j].years[y] =
                              Cardinality({ k \in KeptIn(y) : KeyOf(k) = key })
        /\ result.concluidos.total + SubcatTotals = Cardinality(Kept)

C3_Witness ==
    /\ Aggregated
    /\ Cardinality(Kept) = 2
    /\ result.concluidos.total = 1
    /\ Len(Subcats) = 1

\* ----------------------------------------------------------------- C4
\* no header equals the requested status column, both trimmed and lowercased
StatusColumnAbsent ==
    \A k \in 1..Len(headers) : lower(strip(headers[k])) # lower(strip(status_column))

\* C4: for every dataset whose headers do not contain the requested status
\* column, a dataset with zero rows included, the call raises nothing and
\* the result has a 'warning' key.
C4_AbsentStatusColumnWarns ==
    /\ exc = "None"
    /\ (Returned /\ StatusColumnAbsent) => "warning" \in DOMAIN result

\* ----------------------------------------------------------- C5 and C6
ZeroBucket(b) ==
    /\ b.total = 0
    /\ DOMAIN b.years = Range(years)
    /\ \A y \in Range(years) : b.years[y] = 0

\* the result of a run over no data
ZeroShape(r) ==
    /\ ZeroBucket(r.total_demandado)
    /\ ZeroBucket(r.concluidos)
    /\ ZeroBucket(r.em_andamento.total)
    /\ Len(r.em_andamento.subcategorias) = 0
    /\ PctEq(r.total_demandado.percentage, [num |-> 100, den |-> 1])
    /\ PctEq(r.concluidos.percentage, [num |-> 0, den |-> 1])
    /\ PctEq(r.em_andamento.total.percentage, [num |-> 0, den |-> 1])

\* C5: when the status column resolves and the year column does not, the
\* call raises nothing and returns the zero-data shape with a 'warning' that
\* names the year column and 'available_columns' equal to the header list.
C5_YearColumnNotFound ==
    (status_col_idx # None /\ year_col_idx = None) =>
        /\ exc = "None"
        /\ pc \in {"year_column", "done"}
        /\ Returned =>
               /\ ZeroShape(result)
               /\ "warning" \in DOMAIN result
               /\ contains(AnoAcionamento, result.warning)
               /\ "available_columns" \in DOMAIN result
               /\ result.available_columns = headers

C5_Witness ==
    /\ Returned
    /\ status_col_idx # None
    /\ year_col_idx = None
    /\ Len(rows) = 2
    /\ "warning" \in DOMAIN result

\* C6: for rows = [] the result has total_demandado.percentage 100.0, the
\* other percentages 0.0, every total and per-year count 0 and no
\* subcategory.
C6_EmptyDataset == (Returned /\ rows = <<>>) => ZeroShape(result)

C6_Witness == Returned /\ rows = <<>> /\ headers # <<>>

\* ----------------------------------------------------------------- C7
\* header h is the column called name: equal once both are trimmed and
\* lowercased
Matches(h, name) == lower(strip(h)) = lower(strip(name))

\* idx is the first header that is the column called name, None if none is
FirstExactMatch(idx, name) ==
    IF idx = None
    THEN \A k \in 1..Len(headers) : ~Matches(headers[k], name)
    ELSE /\ idx \in 0..(Len(headers) - 1)
         /\ Matches(headers[idx + 1], name)
         /\ \A k \in 1..idx : ~Matches(headers[k], name)

StatusLookedUp ==
    \/ pc \in {"year_column", "rows", "em_andamento", "percentages", "raised"}
    \/ pc = "done" /\ (status_col_idx # None \/ "requested_column" \in DOMAIN result)

YearLookedUp ==
    \/ pc \in {"rows", "em_andamento", "percentages", "raised"}
    \/ pc = "done" /\ status_col_idx # None

\* C7: a looked-up column index is the first header equal to the requested
\* name after trimming and lowercasing both; a header that only contains
\* the name is no match, and without a match the index is None, never 0.
C7_ColumnResolution ==
    /\ StatusLookedUp => FirstExactMatch(status_col_idx, status_column)
    /\ YearLookedUp => FirstExactMatch(year_col_idx, AnoAcionamento)

C7_Witness ==
    /\ YearLookedUp
    /\ headers[1] = StatusPadded
    /\ status_column = StatusLowerPadded
    /\ status_col_idx = 0
    /\ year_col_idx = 1

\* ----------------------------------------------------------------- C8
\* text that float() reads: digits, or digits '.' digits
IsNumberText(t) ==
    /\ t # <<>>
    /\ \A k \in 1..Len(t) : IsDigit(t[k]) \/ t[k] = "."
    /\ Cardinality({ k \in 1..Len(t) : t[k] = "." }) <= 1
    /\ \E k \in 1..Len(t) : IsDigit(t[k])

\* int(float(t)) of such a text
TruncatedNumber(t) ==
    LET dots == { k \in 1..Len(t) : t[k] = "." }
    IN  IF dots = {} THEN DigitsValue(t)
        ELSE DigitsValue(SubSeq(t, 1, (CHOOSE k \in dots : TRUE) - 1))

\* C8: a year cell is read as a floating-point number and truncated, so a
\* row with a status and the year cell "2024.0" is counted under 2024 when
\* 2024 is requested; only a cell that is no number yields no year.
C8_YearParsedAsFloat ==
    Aggregated =>
        \A y \in Range(years) :
            result.total_demandado.years[y] =
                Cardinality({ k \in 1..Len(rows) :
                                /\ StatusOf(k) # <<>>
                                /\ IsNumberText(YearTextOf(k))
                                /\ TruncatedNumber(YearTextOf(k)) = y })

\* ----------------------------------------------------------------- C9
YearMaps(r) ==
    { r.total_demandado.years, r.concluidos.years, r.em_andamento.total.years }
    \cup { r.em_andamento.subcategorias[j].years :
               j \in 1..Len(r.em_andamento.subcategorias) }

\* C9: a row with a blank status, a blank year or a year that is not
\* requested adds to nothing: total_demandado and the buckets count the
\* other rows only, no subcategory exists without such a row, and every
\* per-year map has exactly the requested years as keys.
C9_SkippedRowsAddNothing ==
    Returned =>
        /\ \A m \in YearMaps(result) : DOMAIN m = Range(years)
        /\ result.total_demandado.total = IF Aggregated THEN Cardinality(Kept) ELSE 0
        /\ result.concluidos.total + SubcatTotals = result.total_demandado.total
        /\ result.em_andamento.total.total = SubcatTotals
        /\ \A j \in 1..Len(Subcats) :
               \E k \in Kept : KeyOf(k) = status_normalized(Subcats[j].name)
        /\ Aggregated =>
               \A y \in Range(years) :
                   result.total_demandado.years[y] = Cardinality(KeptIn(y))

C9_Witness ==
    /\ Aggregated
    /\ Len(rows) = 2
    /\ Cardinality(Kept) = 1
    /\ result.total_demandado.total = 1

\* ---------------------------------------------------------------- C10
BucketPercentage(r, name) ==
    IF name \in DOMAIN r THEN r[name].percentage ELSE [num |-> 0, den |-> 1]

PctAdd(p, q) == [num |-> p.num * q.den + q.num * p.den, den |-> p.den * q.den]

\* concluidos, cancelados (when present) and em_andamento.total make 100 %
TopLevelPercentagesMake100 ==
    PctEq(PctAdd(PctAdd(BucketPercentage(result, "concluidos"),
                        BucketPercentage(result, "cancelados")),
                 result.em_andamento.total.percentage),
          [num |-> 100, den |-> 1])

\* C10 as stated: for every dataset with rows != [] the percentages of the
\* top-level buckets add up to 100.
C10_NonEmptyDatasetMakes100 ==
    (Returned /\ rows # <<>>) => TopLevelPercentagesMake100

\* C10 as amended: for every dataset of which at least one row is counted
\* (total_demandado.total > 0) the percentages of the top-level buckets add
\* up to 100.
C10_CountedRowsMake100 ==
    (Returned /\ result.total_demandado.total > 0) => TopLevelPercentagesMake100

C10_Witness ==
    /\ Returned
    /\ result.total_demandado.total > 0
    /\ result.concluidos.percentage.num > 0
    /\ result.em_andamento.total.percentage.num > 0

\* ---------------------------------------------------------------- C11
\* C11: concluidos, em_andamento.total and every subcategory have
\* percentage 100 * total / total_demandado.total when that total is
\* positive and 0.0 otherwise; total_demandado.percentage is 100.0 always.
C11_PercentageOfGrandTotal ==
    Returned =>
        LET t == result.total_demandado.total
            Share(b) ==
                IF t > 0 THEN PctEq(b.percentage, [num |-> 100 * b.total, den |-> t])
                ELSE PctEq(b.percentage, [num |-> 0, den |-> 1])
        IN  /\ Share(result.concluidos)
            /\ Share(result.em_andamento.total)
            /\ \A j \in 1..Len(Subcats) : Share(Subcats[j])
            /\ PctEq(result.total_demandado.percentage, [num |-> 100, den |-> 1])

C11_Witness ==
    /\ Returned
    /\ Len(rows) = 2
    /\ result.total_demandado.total = 1
    /\ Len(Subcats) = 1
    /\ result.concluidos.percentage.num = 0

\* ---------------------------------------------------------------- C12
\* trimmed, inner whitespace collapsed, lowercased
NormText(t) == lower(join_split(strip(t)))

\* the first counted row whose status normalizes to key, 0 if there is none
FirstRowOf(key) ==
    LET of_key == { k \in Kept : NormText(StatusOf(k)) = key }
    IN  IF of_key = {} THEN 0
        ELSE CHOOSE k \in of_key : \A m \in of_key : k <= m

\* C12: the subcategories come in the order in which their normalized
\* status first occurs among the counted rows.
C12_SubcategoryOrder ==
    Aggregated =>
        \A i, j \in 1..Len(Subcats) :
            i < j => /\ FirstRowOf(NormText(Subcats[i].name)) > 0
                     /\ FirstRowOf(NormText(Subcats[i].name))
                            < FirstRowOf(NormText(Subcats[j].name))

C12_Witness ==
    /\ Aggregated
    /\ Len(Subcats) = 2
    /\ Subcats[1].name = EmAnalise
    /\ Subcats[2].name = Cancelado

\* ---------------------------------------------------------------- C17
ConcluidoText == <<"c","o","n","c","l","u","í","d","o">>

C18_OneAccumulatorPerNormalizedStatus ==
    Aggregated =>
        /\ \A i, j \in 1..Len(Subcats) :
               i # j => NormText(Subcats[i].name) # NormText(Subcats[j].name)
        /\ \A j \in 1..Len(Subcats) :
               Subcats[j].total =
                   Cardinality({ k \in Kept :
                                   NormText(StatusOf(k)) = NormText(Subcats[j].name) })

C18_Witness ==
    /\ Aggregated
    /\ Len(Subcats) = 1
    /\ Subcats[1].total = 2
    /\ \E k, m \in Kept : StatusOf(k) # StatusOf(m)

\* ---------------------------------------------------------------- C19
\* C19: the name of a subcategory is the status text of the first counted
\* row of its group as it stands in the cell (surrounding whitespace
\* trimmed, case and inner spacing kept), not the grouping key.
C19_SubcategoryNamedByFirstRow ==
    Aggregated =>
        \A j \in 1..Len(Subcats) :
            LET first == FirstRowOf(NormText(Subcats[j].name))
            IN  /\ first > 0
                /\ Subcats[j].name = strip(cell(rows[first], status_col_idx))

C19_Witness ==
    /\ Aggregated
    /\ Len(Subcats) = 1
    /\ Subcats[1].total = 2
    /\ Subcats[1].name = <<"E","M"," "," ","A","N","A","L","I","S","E">>


\* ------------------------------------------------------------------ C20
\* the year cell of a row holds a text that int() rejects
UnparseableYear(row, hs) ==
    LET yi == find_column(hs, lower(year_column_name))
    IN  /\ yi # None
        /\ ~is_blank(strip(cell(row, yi)))
        /\ ~int_ok(strip(cell(row, yi)))

\* the dataset with its unparseable-year rows removed
WithoutUnparseable(rs, hs) == SelectSeq(rs, LAMBDA r : ~UnparseableYear(r, hs))

Buckets(r) == <<r.total_demandado, r.concluidos, r.em_andamento>>

\* C20: a row whose year cell cannot be parsed is skipped and never aborts
\* the aggregation: the result of a call equals the result for the same
\* dataset with the unparseable-year rows removed
C20_SameResultWithoutUnparseable ==
    finished([pc |-> pc]) =>
        /\ exc = "None"
        /\ result = aggregate(headers, WithoutUnparseable(rows, headers),
                              status_column, years).result

\* what does hold: no abort, and the three buckets of the result are those
\* of the dataset with the unparseable-year rows removed
SameBucketsWithoutUnparseable ==
    finished([pc |-> pc]) =>
        /\ exc = "None"
        /\ Buckets(result) =
               Buckets(aggregate(headers, WithoutUnparseable(rows, headers),
                                 status_column, years).result)


\* ------------------------------------------------------------------ C13
inputs_of(f) == <<f.headers, f.rows, f.status_column, f.years>>

\* the call with the same inputs, run alone
Alone(f) == aggregate(f.headers, f.rows, f.status_column, f.years)

\* C13: process_enel_legalizacao_data keeps no state across calls and does
\* not modify its inputs: under any interleaving of concurrent calls every
\* call ends as it ends when run alone, with the same result, and no step
\* changes the data, the status column or the years list of any call
C13_CallsAreIndependent ==
    /\ [](\A c \in DOMAIN calls :
              finished(calls[c]) =>
                  /\ calls[c].pc = Alone(calls[c]).pc
                  /\ calls[c].exc = Alone(calls[c]).exc
                  /\ calls[c].result = Alone(calls[c]).result)
    /\ [][\A c \in DOMAIN calls : inputs_of(calls'[c]) = inputs_of(calls[c])]_all_vars

\* a call has returned counted rows while another call is inside its row loop
C13_Witness ==
    \E c, d \in DOMAIN calls :
        /\ c # d
        /\ calls[c].pc = "done"
        /\ calls[c].result.total_demandado.total = 2
        /\ calls[d].pc = "rows"
        /\ calls[d].row_i = 1
        /\ calls[d].total_all = 1


\* ------------------------------------------------------------------ C14
\* the suffixes whose lower case is .csv, and those of a workbook
CsvSuffix == file.suffix \in { <<".","c","s","v">>, <<".","C","S","V">> }

ExcelSuffix == file.suffix \in { <<".","x","l","s","x">>, <<".","X","l","s">> }

\* the sheet the call is to read (a csv file has one), 0 when the workbook
\* has no such sheet
WantedSheet ==
    IF reader.sheet_name = "" \/ CsvSuffix THEN 1
    ELSE IF \E k \in 1..Len(file.content.sheets) :
                file.content.sheets[k].name = reader.sheet_name
         THEN CHOOSE k \in 1..Len(file.content.sheets) :
                  file.content.sheets[k].name = reader.sheet_name
         ELSE 0

\* the file is there at the read and is what its suffix says, with the
\* sheet asked for
Readable ==
    /\ file.exists
    /\ \/ CsvSuffix /\ file.content.kind = "csv"
       \/ ExcelSuffix /\ file.content.kind = "xlsx" /\ WantedSheet # 0

\* the rows of a frame as the dataset holds them: text, '' for a missing cell
CellText(val) ==
    IF val = NaN THEN <<>>
    ELSE IF val.t = "str" THEN val.s
    ELSE str_int(val.n)

WholeDataset(r) ==
    LET fr == file.content.sheets[WantedSheet].frame
    IN  /\ r.headers = fr.columns
        /\ Len(r.values) = Len(fr.values)
        /\ \A k \in 1..Len(fr.values) :
               /\ Len(r.values[k]) = Len(fr.values[k])
               /\ \A j \in 1..Len(fr.values[k]) :
                      r.values[k][j] = CellText(fr.values[k][j])

\* C14: read_spreadsheet_file returns no dataset for a missing or malformed
\* file: a path that does not exist raises FileNotFoundError, an unsupported
\* suffix or a file that cannot be parsed raises ValueError, and a call that
\* does return hands back the whole table of the file
C14_NoDatasetFromBadFile ==
    reader # <<>> /\ reader.pc \in {"done", "raised"} =>
        /\ ~reader.seen => reader.pc = "raised" /\ reader.exc = "FileNotFoundError"
        /\ reader.seen /\ ~Readable => reader.pc = "raised" /\ reader.exc = "ValueError"
        /\ reader.pc = "done" => Readable /\ WholeDataset(reader.result)

\* a supported suffix on a file that cannot be parsed: ValueError
C14_Witness ==
    /\ reader # <<>>
    /\ reader.pc = "raised"
    /\ reader.exc = "ValueError"
    /\ file.exists
    /\ CsvSuffix
    /\ file.content.kind = "garbage"


\* ------------------------------------------------------------------ C15
UserRoutes == { "get_users", "create_user", "get_user", "update_user", "delete_user" }

\* the header is "Bearer <token>" with a token signed with the secret and
\* not expired
TokenAccepted ==
    /\ req.header.form = "bearer"
    /\ req.header.token.signed
    /\ ~req.header.token.expired

DevMaster == req.header.token.role = "dev-master"

\* C15: the body of a /api/users handler runs only for a request with an
\* accepted token whose role is dev-master; with no accepted token the answer
\* is 401, with another role 403, and in both cases the users table stays as
\* it is
C15_UsersRoutesNeedDevMaster ==
    /\ [](req # <<>> /\ req.route \in UserRoutes =>
              /\ req.pc = "handler" => TokenAccepted /\ DevMaster
              /\ req.pc = "responded" /\ ~TokenAccepted => req.status = 401
              /\ req.pc = "responded" /\ TokenAccepted /\ ~DevMaster =>
                     req.status = 403)
    /\ [][users' # users =>
              /\ req.route \in UserRoutes
              /\ req.pc = "handler"
              /\ TokenAccepted /\ DevMaster]_all_vars

\* a request with a good token of another role is answered 403 after a
\* dev-master has added a user
C15_Witness ==
    /\ req # <<>>
    /\ req.route = "delete_user"
    /\ req.pc = "responded"
    /\ req.status = 403
    /\ normalize_email(req.email).ok
    /\ normalize_email(req.email).email \in DOMAIN users
    /\ Cardinality(DOMAIN users) = 2

\* ------------------------------------------------------------------ C16
Registered(e) == lower(strip(e)) \in DOMAIN users

WellFormed(e) == e \in { <<"a","@","b",".","c","o">>, <<" ","A","@","B",".","c","o">>,
                         <<"c","@","d",".","i","o">> }

\* C16: POST /api/auth/forgot-password does not reveal whether an email is
\* registered: the answer to a well-formed registered email is the answer a
\* well-formed email that is not registered gets, status and body
C16_ForgotPasswordHidesRegistration ==
    req # <<>> /\ req.route = "forgot_password" /\ req.pc = "responded"
      /\ WellFormed(req.email) /\ Registered(req.email) =>
        \A e \in EmailPool :
            WellFormed(e) /\ ~Registered(e) =>
                forgot_password(users, e) =
                    [status |-> req.status, message |-> req.message]


\* ------------------------------------------------------------------ C21
\* the row has a cell in the status column and one in the year column
LongEnough(k) == Len(rows[k]) > status_col_idx /\ Len(rows[k]) > year_col_idx

\* C21: ragged rows are tolerated: the call never raises, whatever the
\* lengths of the rows against the header list, and a row too short to have
\* a status cell or a year cell is skipped, counted nowhere
C21_RaggedRowsTolerated ==
    /\ exc = "None"
    /\ pc # "raised"
    /\ Aggregated =>
           result.total_demandado.total =
               Cardinality({ k \in Kept : LongEnough(k) })

\* a sheet with a row too short for the columns and a row longer than the
\* header list, aggregated
C21_Witness ==
    /\ Aggregated
    /\ \E k \in 1..Len(rows) : ~LongEnough(k)
    /\ \E k \in 1..Len(rows) : Len(rows[k]) > Len(headers)

\* ------------------------------------------------- uploads, files, tables
\* no request is being served
Quiescent == \A p \in DOMAIN serving : ~in_progress(serving[p])

OneRecordPerKey(table) ==
    \A r1 \in table : \A r2 \in table : r1.key = r2.key => r1 = r2

RecordedFilesExist(table) == \A r \in table : r.file_path \in disk

\* C22: after any sequence of successful POST /api/enel-spreadsheets/upload
\* requests, enel_spreadsheets holds at most one record per spreadsheet_name
\* and every record's file_path names an existing file; the upload removes
\* the file of the record it replaces only when that file's path differs
\* from the path of the file it has just saved.
C22_EnelUploadKeepsRecordAndFile ==
    /\ [](Quiescent =>
              /\ OneRecordPerKey(db.enel_spreadsheets)
              /\ RecordedFilesExist(db.enel_spreadsheets))
    /\ [][\A p \in DOMAIN serving :
              (serving[p].route = "upload_enel" /\ disk' # disk /\ disk' \subseteq disk)
                  => /\ serving[p].existing # serving[p].file_path
                     /\ disk' = disk \ {serving[p].existing}]_all_vars

\* a second upload for a name has replaced the record and removed the file
\* of the first, while another name keeps its own record
C22_Witness ==
    /\ Quiescent
    /\ Cardinality(db.enel_spreadsheets) = 2
    /\ \E p \in DOMAIN serving :
           /\ serving[p].route = "upload_enel"
           /\ serving[p].status = 200
           /\ serving[p].existing # NoFile
           /\ serving[p].existing # serving[p].file_path
           /\ serving[p].existing \notin disk
           /\ serving[p].file_path \in disk

\* C23: after any sequence of successful POST /api/spreadsheets/upload and
\* DELETE /api/spreadsheets/<regional> requests, the file_path recorded for
\* each regional names an existing file, a re-upload with a file of the same
\* name included.
C23_RegionalRecordNamesExistingFile ==
    Quiescent => RecordedFilesExist(db.spreadsheets)

\* C28: every handler that opens a database connection closes it before it
\* returns, on every return path, so no connection is open whenever no
\* request is in progress.
C28_ConnectionsClosedOnReturn ==
    \A p \in DOMAIN serving : ~in_progress(serving[p]) => serving[p].conn # "open"

\* the rows of the key an upload request writes
rows_of(f) ==
    IF f.route = "upload_enel"
    THEN { r \in db.enel_spreadsheets : r.key = strip(f.key) }
    ELSE { r \in db.spreadsheets : r.key = upper(f.key) }

\* C24: for every interleaving of two concurrent uploads for the same key,
\* both requests finish with 200, exactly one record exists for the key, its
\* file_path names an existing file, and no file saved by either request is
\* left on disk without a record.
C24_ConcurrentUploadsBothSucceed ==
    Quiescent =>
        \A p \in DOMAIN serving :
            /\ serving[p].status = 200
            /\ Cardinality(rows_of(serving[p])) = 1
            /\ \A r \in rows_of(serving[p]) : r.file_path \in disk
            /\ serving[p].file_path \in disk
                   => \E r \in rows_of(serving[p]) : r.file_path = serving[p].file_path

\* the endpoint has answered something other than 404 'Planilha não encontrada'
Found(route) ==
    \E p \in DOMAIN serving :
        /\ serving[p].route = route
        /\ serving[p].pc = "done"
        /\ serving[p].status # 404

\* C27: for each of GET /api/regularizacao/sp, /rj and /cteep there is a
\* sequence of accepted POST /api/enel-spreadsheets/upload requests after
\* which the endpoint no longer answers 404 'Planilha não encontrada': when
\* every upload is made again and again, each endpoint is eventually found.
C27_EveryReportCanBeFed == \A route \in ReportRoutes : <>Found(route)

\* /sp and /cteep are fed by the uploads of their spreadsheets
SpAndCteepAreFed ==
    /\ <>Found("regularizacao_sp")
    /\ <>Found("regularizacao_cteep")

\* no upload is accepted under the name /rj looks up, so /rj answers 404
\* whatever has been uploaded
RjNeverFed ==
    /\ ~Found("regularizacao_rj")
    /\ \A r \in db.enel_spreadsheets : r.key # report_spreadsheet_name("regularizacao_rj")

\* the names an upload of a spreadsheet saves its file under
SavedBy(spreadsheet_name) ==
    { EnelPrefix \o safe_spreadsheet_id(spreadsheet_name) \o <<".">> \o ext :
          ext \in ALLOWED_EXTENSIONS }

\* C26: when the file recorded for a spreadsheet is missing, the search of
\* get_enel_spreadsheet_data only ever selects a file that an upload of that
\* same spreadsheet_name has saved.
C26_FallbackSelectsOwnFile ==
    \A p \in DOMAIN serving :
        ( /\ serving[p].route = "data_enel"
          /\ serving[p].status = 200
          /\ serving[p].existing \notin disk )
            => serving[p].file_path \in SavedBy(serving[p].key)

\* C25: spreadsheet_files.parse_status_data is compatible with
\* google_sheets.parse_status_data: for every dataset of string cells,
\* status_column, years and status_config, the two return equal results or
\* both raise the same ValueError.
C25_ParseStatusDataCompatible ==
    parsing.called = {"files", "sheets"} => parsing.files = parsing.sheets

====
